---- MODULE Spec2Model ----
(***************************************************************************)
(* Blood Donor integration: the API client's token handling (login and the *)
(* authenticated fetchers with their 401 -> re-login -> retry path) and    *)
(* the booking helper's date and time-window computation and slot search, *)
(* the coordinator's periodic refresh with its update scheduler, and the  *)
(* venue_search and available_appointments services.                       *)
(*                                                                         *)
(* Eight specifications share the module:                                  *)
(*   Spec            the API client used by one task at a time: login()    *)
(*                   and the five authenticated operations against a       *)
(*                   backend that answers each request as it likes;        *)
(*   SpecConcurrent  several tasks that run login() and the account fetch  *)
(*                   concurrently on the one API object;                   *)
(*   SpecHelper      one booking_helper invocation, from the service call  *)
(*                   to the computed search window.                        *)
(*   SpecSearch      one booking_helper invocation through the session and *)
(*                   slot queries, the selection, the booking and the      *)
(*                   refresh, and one call of the book_appointment service.*)
(*   SpecRefresh     one refresh of the coordinator: get_data with its     *)
(*                   login, the account and awards requests, and the       *)
(*                   update interval the scheduler selects; hpc, helper,   *)
(*                   coordinator and sent hold the refresh's position, its *)
(*                   locals, the coordinator's interval fields and the     *)
(*                   requests and calls of _schedule_refresh().            *)
(*   SpecSchedule    the refreshes of one coordinator one after the other, *)
(*                   from its construction.                                *)
(*   SpecVenues      one call of the venue_search service.                 *)
(*   SpecListing     one call of the available_appointments service.       *)
(***************************************************************************)
EXTENDS Integers, Sequences, FiniteSets, TLC

VARIABLES
    \* BloodDonorApi fields (0 stands for None, n > 0 for the value carried
    \* by the n-th login response)
    _access_token, _refresh_token, _donor_id,
    issued,        \* number of login responses answered with status 200 so far
    always401,     \* the backend answers 401 to every authenticated request
    calls,         \* the running tasks, one record per task
    \* booking_helper invocation
    hpc,           \* position of the handler
    call_data,     \* the service call's data
    now_date,      \* datetime.now().date(), as a day number
    coordinator,   \* [data, last_update_success] of the coordinator; in
                   \* SpecRefresh and SpecSchedule its update interval fields
    helper,        \* the handler's locals
    matching,      \* the handler's locals of the slot search
    sent           \* the requests and refreshes issued so far, in order

apiVars == <<_access_token, _refresh_token, _donor_id, issued, always401, calls>>
helperVars == <<hpc, call_data, now_date, coordinator, helper, matching, sent>>
vars == <<_access_token, _refresh_token, _donor_id, issued, always401, calls,
          hpc, call_data, now_date, coordinator, helper, matching, sent>>

None == 0

-----------------------------------------------------------------------------
(* Bounds *)

\* number of concurrently running tasks of SpecConcurrent
NumTasks == 2
\* 200-answered logins over a run (each carries fresh tokens)
MaxLogins == 3
\* 401 answers one call may receive
MaxUnauthorized == 2

Tasks == DOMAIN calls

-----------------------------------------------------------------------------
(* login() *)

\* What the login endpoint can answer, or how the request can fail (a body
\* that parses is a JSON object).
\*   ok_full        200, {accessToken, refreshToken, accountDetails:{donorID}}
\*   ok_no_account  200, {accessToken, refreshToken}
\*   non200         any other status, JSON body
\*   bad_json       body that response.json() cannot parse (ValueError)
\*   timeout        asyncio.TimeoutError of the 10 s timeout
\*   client_error   aiohttp.ClientError
LoginOutcomes ==
    {"ok_full", "ok_no_account", "non200", "bad_json", "timeout", "client_error"}

\* The parsed body of a 200 response number n: absent keys read as None by
\* data.get(...).
LoginBody(outcome, n) ==
    [accessToken    |-> IF outcome \in {"ok_full", "ok_no_account"} THEN n ELSE None,
     refreshToken   |-> IF outcome \in {"ok_full", "ok_no_account"} THEN n ELSE None,
     accountDetails |-> outcome = "ok_full",
     donorID        |-> IF outcome = "ok_full" THEN n ELSE None]

\* login() with the stored fields `cur` and the answer `outcome` (number n):
\* the value returned and the fields after the call.
login_clears_on_failure(cur, outcome, n) ==
    IF outcome \in {"ok_full", "ok_no_account"}
    THEN [ret |-> TRUE,
          access  |-> LoginBody(outcome, n).accessToken,
          refresh |-> LoginBody(outcome, n).refreshToken,
          donor   |-> IF LoginBody(outcome, n).accountDetails
                      THEN LoginBody(outcome, n).donorID ELSE cur.donor]
    ELSE [ret |-> FALSE, access |-> None, refresh |-> None, donor |-> cur.donor]

login(cur, outcome, n) ==
    CASE outcome \in {"timeout", "client_error"} ->
            \* except asyncio.TimeoutError / (aiohttp.ClientError, ValueError)
            [ret |-> FALSE, access |-> cur.access, refresh |-> cur.refresh, donor |-> cur.donor]
      [] outcome = "bad_json" ->
            \* except ValueError: return False
            [ret |-> FALSE, access |-> cur.access, refresh |-> cur.refresh, donor |-> cur.donor]
      [] outcome = "non200" ->
            \* if response.status != 200: return False
            [ret |-> FALSE, access |-> cur.access, refresh |-> cur.refresh, donor |-> cur.donor]
      [] OTHER ->
            LET data == LoginBody(outcome, n) IN
            [ret     |-> TRUE,
             access  |-> data.accessToken,
             refresh |-> data.refreshToken,
             donor   |-> IF data.accountDetails THEN data.donorID ELSE cur.donor]

Stored == [access |-> _access_token, refresh |-> _refresh_token, donor |-> _donor_id]

-----------------------------------------------------------------------------
(* The authenticated operations *)

Operations == {"login", "account", "awards", "sessions", "slots", "book"}

\* What the backend can answer to an authenticated request, or how the
\* request can fail.  ok_pending is a 200 booking answer whose status field
\* is not "B".
RequestOutcomes ==
    {"ok", "ok_pending", "unauthorized", "non200", "bad_json", "timeout", "client_error"}

\* The value each operation hands to its caller for an answer other than 401,
\* and for a 401 whose re-login failed ("relogin_failed").
account_raises_on_transport_failure(outcome) ==
    CASE outcome = "ok"                         -> "data"
      [] outcome \in {"timeout", "client_error"} -> "raised"
      [] OTHER                                  -> "null"

_get_account_details(outcome) ==
    CASE outcome = "ok"             -> "data"
      [] outcome = "relogin_failed" -> "null"
      [] outcome = "non200"         -> "null"
      [] outcome = "bad_json"       -> "null"
      [] outcome = "timeout"        -> "null"
      [] OTHER                      -> "null"

_get_awards(outcome) ==
    CASE outcome = "ok"             -> "data"
      [] outcome = "relogin_failed" -> "null"
      [] outcome = "non200"         -> "null"
      [] outcome = "bad_json"       -> "null"
      [] outcome = "timeout"        -> "null"
      [] OTHER                      -> "null"

\* No try/except: what is not a status check leaves the function as an
\* exception.
get_sessions_for_date(outcome) ==
    CASE outcome = "ok"             -> "list"
      [] outcome = "relogin_failed" -> "empty_list"
      [] outcome = "non200"         -> "empty_list"
      [] OTHER                      -> "raised"

get_slots_for_session(outcome) ==
    CASE outcome = "ok"             -> "list"
      [] outcome = "relogin_failed" -> "empty_list"
      [] outcome = "non200"         -> "empty_list"
      [] OTHER                      -> "raised"

any_200_is_booked(outcome) ==
    CASE outcome \in {"ok", "ok_pending"} -> "booked"
      [] outcome = "relogin_failed"       -> "Authentication failed"
      [] outcome = "non200"               -> "response_text"
      [] outcome = "bad_json"             -> "Failed to parse booking response"
      [] OTHER                            -> "str(error)"

\* success False with the error text, or success True.
book_appointment(outcome) ==
    CASE outcome = "ok"             -> "booked"
      [] outcome = "ok_pending"     -> "Booking returned status"
      [] outcome = "relogin_failed" -> "Authentication failed"
      [] outcome = "non200"         -> "response_text"
      [] outcome = "bad_json"       -> "Failed to parse booking response"
      [] OTHER                      -> "str(error)"

Returned(op, outcome) ==
    CASE op = "account"  -> _get_account_details(outcome)
      [] op = "awards"   -> _get_awards(outcome)
      [] op = "sessions" -> get_sessions_for_date(outcome)
      [] op = "slots"    -> get_slots_for_session(outcome)
      [] op = "book"     -> book_appointment(outcome)

\* After the login() that follows a 401: re-invoke the operation when it
\* returned True, give up when it returned False.
retry_even_when_login_failed(ret) == "request"

after_relogin(ret) == IF ret THEN "request" ELSE "done"

IdleTask ==
    [op |-> "none", pc |-> "idle", logins |-> 0, requests |-> 0,
     result |-> "none", loginRet |-> "none"]

\* A task calls login() (get_data and the service handlers do when no token
\* is stored) or one of the authenticated operations; the request is sent.
Call(t, op) ==
    /\ calls[t].pc = "idle"
    /\ calls' = [calls EXCEPT ![t] =
          IF op = "login"
          THEN [IdleTask EXCEPT !.op = op, !.pc = "login", !.logins = 1]
          ELSE [IdleTask EXCEPT !.op = op, !.pc = "request", !.requests = 1]]
    /\ UNCHANGED <<_access_token, _refresh_token, _donor_id, issued, always401>>
    /\ UNCHANGED helperVars

\* The answer to the authenticated request arrives.
Respond(t, outcome) ==
    /\ calls[t].pc = "request"
    /\ always401 => outcome \in {"unauthorized", "timeout", "client_error"}
    /\ outcome = "ok_pending" => calls[t].op = "book"
    /\ IF outcome = "unauthorized"
       THEN /\ calls[t].logins < MaxUnauthorized
            /\ calls' = [calls EXCEPT ![t].pc = "login",
                                      ![t].logins = @ + 1,
                                      ![t].loginRet = "none"]
       ELSE calls' = [calls EXCEPT ![t].pc = "done",
                                   ![t].result = Returned(calls[t].op, outcome)]
    /\ UNCHANGED <<_access_token, _refresh_token, _donor_id, issued, always401>>
    /\ UNCHANGED helperVars

\* login() runs to its return: the assignments of the three fields follow
\* the last await of login() without a suspension point.
LoginReturn(t, outcome) ==
    /\ calls[t].pc = "login"
    /\ outcome \in {"ok_full", "ok_no_account"} => issued < MaxLogins
    /\ LET n == issued + 1
           r == login(Stored, outcome, n)
           next == IF calls[t].op = "login" THEN "done" ELSE after_relogin(r.ret)
       IN /\ _access_token' = r.access
          /\ _refresh_token' = r.refresh
          /\ _donor_id' = r.donor
          /\ issued' = IF r.ret THEN n ELSE issued
          /\ calls' = [calls EXCEPT
                ![t].loginRet = IF r.ret THEN "true" ELSE "false",
                ![t].pc = next,
                ![t].requests = IF next = "request" THEN @ + 1 ELSE @,
                ![t].result =
                    CASE calls[t].op = "login" -> IF r.ret THEN "true" ELSE "false"
                      [] next = "done" -> Returned(calls[t].op, "relogin_failed")
                      [] OTHER -> @]
    /\ UNCHANGED always401
    /\ UNCHANGED helperVars

\* The operation's own timeout (10 s or 30 s) expires while the re-login is
\* in flight: login() is cancelled at its await and the operation ends as for
\* a timeout of its request.
OuterTimeout(t) ==
    /\ calls[t].pc = "login"
    /\ calls[t].op # "login"
    /\ calls' = [calls EXCEPT ![t].pc = "done",
                              ![t].result = Returned(calls[t].op, "timeout")]
    /\ UNCHANGED <<_access_token, _refresh_token, _donor_id, issued, always401>>
    /\ UNCHANGED helperVars

\* The caller takes the result.
Return(t) ==
    /\ calls[t].pc = "done"
    /\ calls' = [calls EXCEPT ![t] = IdleTask]
    /\ UNCHANGED <<_access_token, _refresh_token, _donor_id, issued, always401>>
    /\ UNCHANGED helperVars

ApiInit ==
    /\ _access_token = None
    /\ _refresh_token = None
    /\ _donor_id = None
    /\ issued = 0
    /\ always401 \in BOOLEAN
    /\ calls = [t \in {1} |-> IdleTask]

HelperIdle ==
    /\ hpc = "idle"
    /\ call_data = <<>>
    /\ now_date = 0
    /\ coordinator = <<>>
    /\ helper = <<>>
    /\ matching = <<>>
    /\ sent = <<>>

Init == ApiInit /\ HelperIdle

Next ==
    \/ \E t \in Tasks, op \in Operations : Call(t, op)
    \/ \E t \in Tasks, outcome \in RequestOutcomes : Respond(t, outcome)
    \/ \E t \in Tasks, outcome \in LoginOutcomes : LoginReturn(t, outcome)
    \/ \E t \in Tasks : OuterTimeout(t)
    \/ \E t \in Tasks : Return(t)

Spec == Init /\ [][Next]_vars

\* Several tasks share the API object; each runs login() or the account fetch.
ConcurrentOperations == {"login", "account"}

InitConcurrent ==
    /\ _access_token = None
    /\ _refresh_token = None
    /\ _donor_id = None
    /\ issued = 0
    /\ always401 = FALSE
    /\ calls = [t \in 1..NumTasks |-> IdleTask]
    /\ HelperIdle

NextConcurrent ==
    \/ \E t \in Tasks, op \in ConcurrentOperations : Call(t, op)
    \/ \E t \in Tasks, outcome \in RequestOutcomes : Respond(t, outcome)
    \/ \E t \in Tasks, outcome \in LoginOutcomes : LoginReturn(t, outcome)
    \/ \E t \in Tasks : OuterTimeout(t)
    \/ \E t \in Tasks : Return(t)

SpecConcurrent == InitConcurrent /\ [][NextConcurrent]_vars

-----------------------------------------------------------------------------
(* booking_helper: dates are day numbers whose day 0 is a Monday, times of   *)
(* day are seconds since midnight, datetimes are seconds since day 0.        *)

\* first of the seven consecutive days datetime.now().date() is drawn from
FirstDay == 70
\* longest appointment list of the account data
MaxAppointments == 2

SecondsPerDay == 86400
SecondsPerHour == 3600
SecondsPerMinute == 60

Max(a, b) == IF a >= b THEN a ELSE b
Min(a, b) == IF a <= b THEN a ELSE b

DAYS_OF_WEEK ==
    [d \in {"monday", "tuesday", "wednesday", "thursday", "friday", "saturday", "sunday"} |->
        CASE d = "monday" -> 0 [] d = "tuesday" -> 1 [] d = "wednesday" -> 2
          [] d = "thursday" -> 3 [] d = "friday" -> 4 [] d = "saturday" -> 5
          [] OTHER -> 6]

\* date.weekday(): Monday = 0 .. Sunday = 6
weekday(d) == d % 7

\* Strings are sequences of one-character strings; NoTime stands for an
\* absent target_time.
NoTime == <<"None">>
Digits == <<"0", "1", "2", "3", "4", "5", "6", "7", "8", "9">>
IsDigit(ch) == \E i \in 1..10 : Digits[i] = ch
DigitValue(ch) == (CHOOSE i \in 1..10 : Digits[i] = ch) - 1

\* str.count(":")
RECURSIVE count_colons(_)
count_colons(str) ==
    IF str = <<>> THEN 0
    ELSE (IF Head(str) = ":" THEN 1 ELSE 0) + count_colons(Tail(str))

\* str.replace(":", "")
RECURSIVE remove_colons(_)
remove_colons(str) ==
    IF str = <<>> THEN <<>>
    ELSE (IF Head(str) = ":" THEN <<>> ELSE <<Head(str)>>) \o remove_colons(Tail(str))

\* ":".join(str.split(":")[:2]) of a string with two colons: what precedes
\* the second colon
RECURSIVE before_second_colon(_, _)
before_second_colon(str, seen) ==
    IF str = <<>> THEN <<>>
    ELSE IF Head(str) = ":" /\ seen = 1 THEN <<>>
    ELSE <<Head(str)>> \o
         before_second_colon(Tail(str), IF Head(str) = ":" THEN seen + 1 ELSE seen)

\* str.zfill(width) of a string without sign
RECURSIVE zfill(_, _)
zfill(str, width) == IF Len(str) >= width THEN str ELSE zfill(<<"0">> \o str, width)

normalize_time(time_input) ==
    IF time_input = NoTime THEN <<"1", "2", ":", "5", "5">>
    ELSE LET stripped == IF count_colons(time_input) = 2
                         THEN before_second_colon(time_input, 0) ELSE time_input
             time_str == zfill(remove_colons(stripped), 4)
         IN SubSeq(time_str, 1, 2) \o <<":">> \o SubSeq(time_str, 3, Len(time_str))

\* int(str) of a string of digits; -1 stands for the ValueError of any other
\* string
RECURSIVE int_of(_, _)
int_of(str, acc) ==
    IF str = <<>> THEN acc
    ELSE IF ~IsDigit(Head(str)) THEN -1
    ELSE int_of(Tail(str), 10 * acc + DigitValue(Head(str)))

\* parts = target_time_str.split(":"); time(int(parts[0]), int(parts[1])):
\* the time of day in seconds, or -1 for the ValueError
parse_target_time(target_time_str) ==
    LET colon == CHOOSE i \in 1..Len(target_time_str) : target_time_str[i] = ":"
        first == SubSeq(target_time_str, 1, colon - 1)
        second == SubSeq(target_time_str, colon + 1, Len(target_time_str))
        hour == IF first = <<>> THEN -1 ELSE int_of(first, 0)
        minute == IF second = <<>> THEN -1 ELSE int_of(second, 0)
    IN IF hour \in 0..23 /\ minute \in 0..59
       THEN hour * SecondsPerHour + minute * SecondsPerMinute
       ELSE -1

\* An appointment of the account data (a JSON object whose session, when
\* present, is an object), by what its session date is:
\*   date      session.sessionDate is "YYYY-MM-DDT..." of day `date`
\*   missing   no session or no sessionDate key (KeyError)
\*   bad_date  a sessionDate that strptime rejects (ValueError)
Appointment(kind, date) == [kind |-> kind, date |-> date]

\* The dates the loop of get_last_donation_date appends, in list order
RECURSIVE appointment_dates(_)
appointment_dates(appointments) ==
    IF appointments = <<>> THEN <<>>
    ELSE (IF Head(appointments).kind = "date" THEN <<Head(appointments).date>> ELSE <<>>)
         \o appointment_dates(Tail(appointments))

\* max(list) of a non-empty list
RECURSIVE max_of(_)
max_of(dates) ==
    IF Len(dates) = 1 THEN dates[1] ELSE Max(dates[1], max_of(Tail(dates)))

min_of_dates(dates) == CHOOSE d \in {dates[i] : i \in 1..Len(dates)} :
                           \A i \in 1..Len(dates) : d <= dates[i]

\* timedelta(days=60) of the default last donation date
DefaultLastDonationDays == 60

default_last_30_days(today) == today - 30

default_last_donation_date(today) == today - DefaultLastDonationDays

latest_appointment(dates) == max_of(dates)

\* get_last_donation_date after its refresh: None (0) without coordinator
\* data, else the latest appointment date or today - 60 days
get_last_donation_date(coord, today) ==
    IF ~coord.has_data THEN None
    ELSE IF coord.appointments = <<>> THEN default_last_donation_date(today)
    ELSE IF appointment_dates(coord.appointments) = <<>>
         THEN default_last_donation_date(today)
    ELSE latest_appointment(appointment_dates(coord.appointments))

earliest_allowed_date(last_donation_date, min_days_from_last, today) ==
    Max(IF last_donation_date # None
        THEN last_donation_date + min_days_from_last
        ELSE today,
        today)

days_to_add_next_week(current_day_idx, target_day_idx) ==
    IF target_day_idx > current_day_idx
    THEN target_day_idx - current_day_idx
    ELSE target_day_idx - current_day_idx + 7

days_to_add(current_day_idx, target_day_idx) ==
    IF current_day_idx = target_day_idx THEN 0
    ELSE (target_day_idx - current_day_idx) % 7

\* datetime.combine(date, time)
combine(date, time) == date * SecondsPerDay + time

unclamped_window(target_date, target_time, tolerance_minutes) ==
    LET target_datetime == combine(target_date, target_time) IN
    [target_datetime |-> target_datetime,
     start_datetime  |-> target_datetime - tolerance_minutes * SecondsPerMinute,
     end_datetime    |-> target_datetime + tolerance_minutes * SecondsPerMinute]

\* the time window of lines 410-417; tolerance_hours is held in minutes
time_window(target_date, target_time, tolerance_minutes) ==
    LET target_datetime == combine(target_date, target_time)
        start_datetime == target_datetime - tolerance_minutes * SecondsPerMinute
        end_datetime == target_datetime + tolerance_minutes * SecondsPerMinute
    IN [target_datetime |-> target_datetime,
        start_datetime  |-> Max(start_datetime, combine(target_date, 0)),
        end_datetime    |-> Min(end_datetime,
                                combine(target_date, 23 * SecondsPerHour
                                                     + 59 * SecondsPerMinute + 59))]

-----------------------------------------------------------------------------
(* booking_helper: the handler *)

Days == FirstDay..(FirstDay + 6)

\* appointments of the account data: two parseable dates (one long past, one
\* recent or ahead, depending on the day), an entry without session date, an
\* entry with an unparsable one
AppointmentEntries ==
    {Appointment("date", FirstDay - 40), Appointment("date", FirstDay + 3),
     Appointment("missing", None), Appointment("bad_date", None)}

AppointmentLists ==
    UNION {[1..n -> AppointmentEntries] : n \in 0..MaxAppointments}

\* coordinator.data (absent, or the account data with its appointments) and
\* coordinator.last_update_success
Coordinators ==
    {[has_data |-> FALSE, appointments |-> <<>>, last_update_success |-> ok] :
        ok \in BOOLEAN}
    \cup
    {[has_data |-> TRUE, appointments |-> a, last_update_success |-> ok] :
        a \in AppointmentLists, ok \in BOOLEAN}

\* target_time as the caller writes it: absent, "030", "23:10:00", "24:00"
TargetTimes ==
    {NoTime, <<"0", "3", "0">>, <<"2", "3", ":", "1", "0", ":", "0", "0">>,
     <<"2", "4", ":", "0", "0">>}

\* tolerance_hours 0, 0.5, 2.0 (the default) and 30.0, in minutes
Tolerances == {0, 30, 120, 1800}

\* min_days_from_last_appointment
MinDays == {0, 14, 61}

DayNames == DOMAIN DAYS_OF_WEEK

\* call.data: target_date None (0) or a date, target_day_of_week "None" or a
\* day name.  The calls either vary what decides the target date (with the
\* default time and tolerance) or what decides the window (with the default
\* minimum gap).
CallsVaryingDates ==
    [target_date : {None, FirstDay + 9},
     target_day_of_week : {"None"} \cup DayNames,
     target_time : {NoTime},
     tolerance_hours : {120},
     min_days_from_last_appointment : MinDays]

CallsVaryingTimes ==
    [target_date : {None},
     target_day_of_week : {"wednesday", "sunday"},
     target_time : TargetTimes,
     tolerance_hours : Tolerances,
     min_days_from_last_appointment : {14}]

\* response_data["appointment"] = None
NoAppointment ==
    [date |-> None, session_id |-> None, session_date |-> None,
     session_time |-> <<>>, time_difference |-> None]

NoLocals ==
    [target_time |-> None, day_of_week |-> "unbound",
     last_donation_date |-> None, earliest_allowed_date |-> None,
     target_date |-> None, target_datetime |-> None,
     start_datetime |-> None, end_datetime |-> None,
     exception |-> "None",
     response_data |-> [success |-> FALSE, message |-> "", appointment |-> NoAppointment,
                        error |-> "None"]]

\* Lines 298-375: the response structure, normalize_time, the schema, the
\* check that a date or a day of week is given, the parse of the target time
\* and the branch on target_date.
never_missing(validated_data) == FALSE

\* line 335: neither target_date nor target_day_of_week is given
date_and_day_missing(validated_data) ==
    validated_data.target_date = None /\ validated_data.target_day_of_week = "None"

booking_helper_called ==
    /\ hpc = "called"
    /\ LET target_time_str == normalize_time(call_data.target_time)
           target_time == parse_target_time(target_time_str)
       IN IF date_and_day_missing(call_data)
          THEN /\ hpc' = "returned"
               /\ helper' = [helper EXCEPT !.response_data.error =
                      "Either target_date or target_day_of_week must be provided"]
          ELSE IF target_time = -1
          THEN /\ hpc' = "raised"
               /\ helper' = [helper EXCEPT !.exception = "ValueError"]
          ELSE /\ hpc' = "last_donation"
               /\ helper' = [helper EXCEPT
                     !.target_time = target_time,
                     !.target_date = call_data.target_date,
                     !.day_of_week = IF call_data.target_date # None
                                     THEN "unbound"
                                     ELSE call_data.target_day_of_week]
    /\ UNCHANGED <<call_data, now_date, coordinator, matching, sent>>
    /\ UNCHANGED apiVars

needs_refresh_without_data(coord) == ~coord.has_data

needs_refresh(coord) == ~coord.has_data \/ ~coord.last_update_success

\* get_last_donation_date, lines 86-87: coordinator.async_refresh() when the
\* coordinator has no data or its last update failed.  A successful refresh
\* stores the fetched account data, a failed one keeps the data and clears
\* last_update_success.
refresh_coordinator(ok, appointments) ==
    /\ hpc = "last_donation"
    /\ needs_refresh(coordinator)
    /\ coordinator' =
          IF ok
          THEN [has_data |-> TRUE, appointments |-> appointments,
                last_update_success |-> TRUE]
          ELSE [coordinator EXCEPT !.last_update_success = FALSE]
    /\ hpc' = "refreshed"
    /\ UNCHANGED <<call_data, now_date, helper, matching, sent>>
    /\ UNCHANGED apiVars

\* get_last_donation_date from line 89 and lines 377-423 of the handler: the
\* earliest allowed date, the next occurrence of the day of week, the window.
compute_target ==
    /\ \/ hpc = "refreshed"
       \/ hpc = "last_donation" /\ ~needs_refresh(coordinator)
    /\ LET last == get_last_donation_date(coordinator, now_date)
           earliest == earliest_allowed_date(
                           last, call_data.min_days_from_last_appointment, now_date)
       IN IF helper.day_of_week = "unbound"
          THEN \* line 391 reads day_of_week, which only the else branch of
               \* line 372 binds
               /\ hpc' = "raised"
               /\ helper' = [helper EXCEPT
                     !.last_donation_date = last,
                     !.earliest_allowed_date = earliest,
                     !.exception = "UnboundLocalError"]
          ELSE LET target_date == earliest + days_to_add(
                                      weekday(earliest), DAYS_OF_WEEK[helper.day_of_week])
                   window == time_window(target_date, helper.target_time,
                                         call_data.tolerance_hours)
               IN /\ hpc' = "search"
                  /\ helper' = [helper EXCEPT
                        !.last_donation_date = last,
                        !.earliest_allowed_date = earliest,
                        !.target_date = target_date,
                        !.target_datetime = window.target_datetime,
                        !.start_datetime = window.start_datetime,
                        !.end_datetime = window.end_datetime]
    /\ UNCHANGED <<call_data, now_date, coordinator, matching, sent>>
    /\ UNCHANGED apiVars

ApiIdle ==
    /\ _access_token = None
    /\ _refresh_token = None
    /\ _donor_id = None
    /\ issued = 0
    /\ always401 = FALSE
    /\ calls = [t \in {1} |-> IdleTask]

InitHelper ==
    /\ ApiIdle
    /\ hpc = "called"
    /\ now_date \in Days
    /\ \/ call_data \in CallsVaryingDates /\ coordinator \in Coordinators
       \/ /\ call_data \in CallsVaryingTimes
          /\ coordinator \in {c \in Coordinators : Len(c.appointments) <= 1}
    /\ helper = NoLocals
    /\ matching = <<>>
    /\ sent = <<>>

NextHelper ==
    \/ booking_helper_called
    \/ \E ok \in BOOLEAN, appointments \in AppointmentLists :
          refresh_coordinator(ok, appointments)
    \/ compute_target

SpecHelper == InitHelper /\ [][NextHelper]_vars

-----------------------------------------------------------------------------
(* booking_helper: the slot search of lines 425-664.  A session of the      *)
(* backend is [sessionId, sessionDate, periods], a period is                *)
(* [availableSlots], a slot is [time] with the time as the backend writes   *)
(* it ("T1220").                                                            *)

\* longest session list the backend answers with
MaxSessions == 2
\* longest slot list the backend answers with for one session
MaxSlots == 2

\* str.replace("T", "")
RECURSIVE remove_T(_)
remove_T(str) ==
    IF str = <<>> THEN <<>>
    ELSE (IF Head(str) = "T" THEN <<>> ELSE <<Head(str)>>) \o remove_T(Tail(str))

\* Lines 495-501: slot.get("time", "").replace("T", ""), int() of the first
\* two characters and of the rest, time(hour, minute).  The time of day in
\* seconds; -1 when the slot is passed over (fewer than four characters, or
\* the ValueError of int() or time()).
parse_slot_time(time) ==
    LET slot_time_str == remove_T(time)
        hour == int_of(SubSeq(slot_time_str, 1, 2), 0)
        minute == int_of(SubSeq(slot_time_str, 3, Len(slot_time_str)), 0)
    IN IF Len(slot_time_str) >= 4 /\ hour \in 0..23 /\ minute \in 0..59
       THEN hour * SecondsPerHour + minute * SecondsPerMinute
       ELSE -1

has_periods(session) == session.periods # <<>>

\* lines 457-461: some period of the session has availableSlots > 0
has_availability(session) ==
    \E i \in 1..Len(session.periods) : session.periods[i].availableSlots > 0

every_session(sessions) ==
    [i \in 1..Len(sessions) |->
        [session_id |-> sessions[i].sessionId,
         session_date |-> sessions[i].sessionDate]]

\* lines 451-467: the sessions with availability, in the order of the answer
available_sessions(sessions) ==
    LET kept == SelectSeq(sessions, has_availability)
    IN [i \in 1..Len(kept) |->
           [session_id |-> kept[i].sessionId,
            session_date |-> kept[i].sessionDate]]

abs(x) == IF x < 0 THEN -x ELSE x

\* lines 502-510: the slot as it is appended to all_slots (time_difference
\* is held in seconds instead of hours)
found_slot(slot, session_info, slot_datetime, target_datetime) ==
    [time |-> slot.time,
     session_id |-> session_info.session_id,
     session_date |-> session_info.session_date,
     slot_datetime |-> slot_datetime,
     time_difference |-> abs(slot_datetime - target_datetime)]

RECURSIVE slots_of_any_time(_, _, _, _)
slots_of_any_time(slots, session_info, target_date, window) ==
    IF slots = <<>> THEN <<>>
    ELSE LET slot_time == parse_slot_time(Head(slots).time)
             slot_datetime == combine(target_date, Max(slot_time, 0))
         IN <<found_slot(Head(slots), session_info, slot_datetime,
                         window.target_datetime)>>
            \o slots_of_any_time(Tail(slots), session_info, target_date, window)

\* lines 493-512: the slots of one session's answer that parse and lie
\* within the window, in the order of the answer
RECURSIVE slots_in_window(_, _, _, _)
slots_in_window(slots, session_info, target_date, window) ==
    IF slots = <<>> THEN <<>>
    ELSE LET slot_time == parse_slot_time(Head(slots).time)
             slot_datetime == combine(target_date, slot_time)
             keep == /\ slot_time # -1
                     /\ window.start_datetime <= slot_datetime
                     /\ slot_datetime <= window.end_datetime
         IN (IF keep
             THEN <<found_slot(Head(slots), session_info, slot_datetime,
                               window.target_datetime)>>
             ELSE <<>>)
            \o slots_in_window(Tail(slots), session_info, target_date, window)

RECURSIVE insert_before_equal(_, _)
insert_before_equal(slot, sorted) ==
    IF sorted = <<>> THEN <<slot>>
    ELSE IF Head(sorted).time_difference < slot.time_difference
    THEN <<Head(sorted)>> \o insert_before_equal(slot, Tail(sorted))
    ELSE <<slot>> \o sorted

\* the place of a slot in a sorted list: behind every slot whose
\* time_difference is not larger (the sort of line 527 is stable)
RECURSIVE insert_slot(_, _)
insert_slot(slot, sorted) ==
    IF sorted = <<>> THEN <<slot>>
    ELSE IF Head(sorted).time_difference <= slot.time_difference
    THEN <<Head(sorted)>> \o insert_slot(slot, Tail(sorted))
    ELSE <<slot>> \o sorted

RECURSIVE sorted_from(_, _)
sorted_from(all_slots, sorted) ==
    IF all_slots = <<>> THEN sorted
    ELSE sorted_from(Tail(all_slots), insert_slot(Head(all_slots), sorted))

unsorted(all_slots) == all_slots

\* line 527: all_slots.sort(key=time_difference), a stable sort
sort_by_time_difference(all_slots) == sorted_from(all_slots, <<>>)

\* lines 536-546: appointment_data (the fields that identify the slot)
appointment_data(target_date, best_slot) ==
    [date |-> target_date,
     session_id |-> best_slot.session_id,
     session_date |-> best_slot.session_date,
     session_time |-> best_slot.time,
     time_difference |-> best_slot.time_difference]

\* What the backend may answer.  periods: none, all taken, one with places.
Periods ==
    {<<>>,
     <<[availableSlots |-> 0], [availableSlots |-> 0]>>,
     <<[availableSlots |-> 0], [availableSlots |-> 2]>>}

\* the answers to the session query of one date: the i-th session has id i
SessionLists(date) ==
    UNION {{[i \in 1..n |-> [sessionId |-> i, sessionDate |-> date,
                             periods |-> p[i]]] : p \in [1..n -> Periods]} :
           n \in 0..MaxSessions}

\* slot times of a session: session 1 offers 13:40, 12:10 and 09:00,
\* session 2 offers 12:20 and a time written "12:20", any further session
\* 13:40
SlotTimesOf(session_id) ==
    CASE session_id = 1 ->
           {<<"T", "1", "3", "4", "0">>, <<"T", "1", "2", "1", "0">>,
            <<"T", "0", "9", "0", "0">>}
      [] session_id = 2 ->
           {<<"T", "1", "2", "2", "0">>, <<"1", "2", ":", "2", "0">>}
      [] OTHER -> {<<"T", "1", "3", "4", "0">>}

SlotLists(session_id) ==
    UNION {[1..n -> {[time |-> t] : t \in SlotTimesOf(session_id)}] :
           n \in 0..MaxSlots}

\* how a session or slot query ends: the outcome of its last request, or the
\* failed re-login after a 401.  The 401 -> login -> retry path is Spec's;
\* the tokens a successful re-login stores on the way are not followed here.
QueryOutcomes == (RequestOutcomes \ {"unauthorized", "ok_pending"}) \cup {"relogin_failed"}

BookOutcomes == (RequestOutcomes \ {"unauthorized"}) \cup {"relogin_failed"}

\* best_slot before line 530
NoSlot ==
    [time |-> <<>>, session_id |-> None, session_date |-> None,
     slot_datetime |-> None, time_difference |-> None]

NoMatch ==
    [sessions |-> <<>>, available_sessions |-> <<>>, queried |-> 0,
     all_slots |-> <<>>, best_slot |-> NoSlot]

\* the handler returns response_data with this message and error
Failed(message, error) ==
    [helper EXCEPT !.response_data.message = message,
                   !.response_data.error = error]

\* lines 652-661: an exception inside the try block
Caught == [helper EXCEPT !.exception = "Exception",
                         !.response_data.success = FALSE,
                         !.response_data.error = "str(error)"]

\* Lines 427-434: login() when no access token is stored; the handler
\* returns when there is none afterwards.
login_if_no_token(outcome) ==
    /\ hpc = "search"
    /\ _access_token = None
    /\ outcome \in {"ok_full", "ok_no_account"} => issued < MaxLogins
    /\ LET n == issued + 1
           r == login(Stored, outcome, n)
       IN /\ _access_token' = r.access
          /\ _refresh_token' = r.refresh
          /\ _donor_id' = r.donor
          /\ issued' = IF r.ret THEN n ELSE issued
          /\ IF r.access = None
             THEN /\ hpc' = "returned"
                  /\ helper' = Failed("", "Failed to login to Blood Donor service")
             ELSE /\ hpc' = "logged_in"
                  /\ UNCHANGED helper
    /\ UNCHANGED <<always401, calls>>
    /\ UNCHANGED <<call_data, now_date, coordinator, matching, sent>>

week_of_sessions(date) == [startDate |-> date, endDate |-> date + 6]

\* lines 149-152 of get_sessions_for_date: startDate and endDate are both the
\* date asked for
session_query_params(date) == [startDate |-> date, endDate |-> date]

\* Lines 437-479: get_sessions_for_date for the target date, the sessions
\* with availability.
sessions_answered(outcome, sessions) ==
    /\ \/ hpc = "search" /\ _access_token # None
       \/ hpc = "logged_in"
    /\ get_sessions_for_date(outcome) # "list" => sessions = <<>>
    /\ LET result == get_sessions_for_date(outcome)
           answer == IF result = "list" THEN sessions ELSE <<>>
           available == available_sessions(answer)
       IN /\ sent' = Append(sent, [op |-> "sessions",
                                   params |-> session_query_params(helper.target_date),
                                   outcome |-> outcome,
                                   result |-> result,
                                   answer |-> answer])
          /\ IF result = "raised"
             THEN /\ hpc' = "returned"
                  /\ helper' = Caught
                  /\ UNCHANGED matching
             ELSE IF answer = <<>>
             THEN /\ hpc' = "returned"
                  /\ helper' = Failed("No sessions available for target_date.",
                                      "No sessions available")
                  /\ UNCHANGED matching
             ELSE IF available = <<>>
             THEN /\ hpc' = "returned"
                  /\ helper' = Failed("No available appointment slots found for target_date.",
                                      "No available slots")
                  /\ matching' = [matching EXCEPT !.sessions = answer]
             ELSE /\ hpc' = "slots"
                  /\ matching' = [matching EXCEPT !.sessions = answer,
                                                  !.available_sessions = available]
                  /\ UNCHANGED helper
    /\ UNCHANGED apiVars
    /\ UNCHANGED <<call_data, now_date, coordinator>>

books_always(data) == TRUE

\* line 549: if auto_book
books(data) == data.auto_book

\* lines 647-650: the response that reports the slot found
found_response(response_data, appointment) ==
    [response_data EXCEPT
        !.success = TRUE,
        !.message = "Found best available appointment (not booked)",
        !.appointment = appointment]

always_success(booking_result) == TRUE

\* line 565: booking_result.get("success", False)
booking_success(booking_result) == booking_result = "booked"

\* lines 584-586: the response after a confirmed booking
booked_response(response_data, appointment) ==
    [response_data EXCEPT
        !.success = TRUE,
        !.message = "Appointment booked successfully",
        !.appointment = appointment]

failed_response_without_error(response_data, error_message, appointment) ==
    [response_data EXCEPT
        !.success = FALSE,
        !.message = "Failed to book appointment",
        !.appointment = appointment]

failed_response_without_appointment(response_data, error_message, appointment) ==
    [response_data EXCEPT
        !.success = FALSE,
        !.message = "Failed to book appointment",
        !.error = error_message]

\* lines 602-605: the response after a booking that was not confirmed
failed_response(response_data, error_message, appointment) ==
    [response_data EXCEPT
        !.success = FALSE,
        !.message = "Failed to book appointment",
        !.error = error_message,
        !.appointment = appointment]

\* lines 549-563 and 606-650 once best_slot is known: without auto_book the
\* handler returns the slot, with auto_book it calls book_appointment
slot_chosen(best_slot) ==
    IF books(call_data)
    THEN /\ hpc' = "booking"
         /\ UNCHANGED helper
    ELSE /\ hpc' = "returned"
         /\ helper' = [helper EXCEPT !.response_data =
               found_response(@, appointment_data(helper.target_date, best_slot))]

\* Lines 484-546: get_slots_for_session for the next session with
\* availability; after the last one the slots found are sorted and the first
\* is the best slot.
slots_answered(outcome, slots) ==
    /\ hpc = "slots"
    /\ get_slots_for_session(outcome) # "list" => slots = <<>>
    /\ LET session_info == matching.available_sessions[matching.queried + 1]
           result == get_slots_for_session(outcome)
           window == [target_datetime |-> helper.target_datetime,
                      start_datetime |-> helper.start_datetime,
                      end_datetime |-> helper.end_datetime]
           all_slots == matching.all_slots \o
                        slots_in_window(slots, session_info, helper.target_date, window)
           sorted == sort_by_time_difference(all_slots)
       IN /\ sent' = Append(sent, [op |-> "slots",
                                   session_id |-> session_info.session_id,
                                   session_date |-> session_info.session_date,
                                   outcome |-> outcome,
                                   result |-> result,
                                   answer |-> slots])
          /\ IF result = "raised"
             THEN /\ hpc' = "returned"
                  /\ helper' = Caught
                  /\ matching' = [matching EXCEPT !.queried = @ + 1]
             ELSE IF matching.queried + 1 < Len(matching.available_sessions)
             THEN /\ hpc' = "slots"
                  /\ matching' = [matching EXCEPT !.queried = @ + 1,
                                                  !.all_slots = all_slots]
                  /\ UNCHANGED helper
             ELSE IF all_slots = <<>>
             THEN /\ hpc' = "returned"
                  /\ helper' = Failed("No available slots found within tolerance_hours hours of target_time on target_date.",
                                      "No slots within tolerance window")
                  /\ matching' = [matching EXCEPT !.queried = @ + 1]
             ELSE /\ matching' = [matching EXCEPT !.queried = @ + 1,
                                                  !.all_slots = sorted,
                                                  !.best_slot = sorted[1]]
                  /\ slot_chosen(sorted[1])
    /\ UNCHANGED apiVars
    /\ UNCHANGED <<call_data, now_date, coordinator>>

\* Lines 555-605: book_appointment for the best slot; a confirmed booking is
\* followed by coordinator.async_refresh().
booking_answered(outcome) ==
    /\ hpc = "booking"
    /\ LET best_slot == matching.best_slot
           booking_result == book_appointment(outcome)
           appointment == appointment_data(helper.target_date, best_slot)
       IN /\ sent' = Append(sent, [op |-> "book",
                                   session_id |-> best_slot.session_id,
                                   session_date |-> best_slot.session_date,
                                   session_time |-> best_slot.time,
                                   outcome |-> outcome])
          /\ IF booking_success(booking_result)
             THEN /\ hpc' = "refresh"
                  /\ helper' = [helper EXCEPT !.response_data =
                        booked_response(@, appointment)]
             ELSE /\ hpc' = "returned"
                  /\ helper' = [helper EXCEPT !.response_data =
                        failed_response(@, booking_result, appointment)]
    /\ UNCHANGED apiVars
    /\ UNCHANGED <<call_data, now_date, coordinator, matching>>

\* line 589: coordinator.async_refresh() after the confirmed booking
refresh_after_booking(ok, appointments) ==
    /\ hpc = "refresh"
    /\ ~ok => appointments = <<>>
    /\ coordinator' =
          IF ok
          THEN [has_data |-> TRUE, appointments |-> appointments,
                last_update_success |-> TRUE]
          ELSE [coordinator EXCEPT !.last_update_success = FALSE]
    /\ sent' = Append(sent, [op |-> "refresh"])
    /\ hpc' = "returned"
    /\ UNCHANGED apiVars
    /\ UNCHANGED <<call_data, now_date, helper, matching>>

\* The book_appointment service of the integration (services.py, lines
\* 353-487), called with the session id, date and time of a slot.
\* Lines 376-381: login() when no access token is stored.
service_login(outcome) ==
    /\ hpc = "service_called"
    /\ _access_token = None
    /\ outcome \in {"ok_full", "ok_no_account"} => issued < MaxLogins
    /\ LET n == issued + 1
           r == login(Stored, outcome, n)
       IN /\ _access_token' = r.access
          /\ _refresh_token' = r.refresh
          /\ _donor_id' = r.donor
          /\ issued' = IF r.ret THEN n ELSE issued
          /\ hpc' = IF r.access = None THEN "service_returned" ELSE "service_logged_in"
    /\ UNCHANGED <<always401, calls>>
    /\ UNCHANGED <<call_data, now_date, coordinator, helper, matching, sent>>

\* lines 444 and 460: the status of the answer is "B"
service_booked(outcome) == outcome = "ok"

\* Lines 383-487: the booking request and what follows its answer; only the
\* status "B" is followed by coordinator.async_refresh().
service_booking_answered(outcome) ==
    /\ \/ hpc = "service_called" /\ _access_token # None
       \/ hpc = "service_logged_in"
    /\ sent' = Append(sent, [op |-> "book",
                             session_id |-> call_data.session_id,
                             session_date |-> call_data.session_date,
                             session_time |-> call_data.session_time,
                             outcome |-> outcome])
    /\ hpc' = IF service_booked(outcome) THEN "service_refresh" ELSE "service_returned"
    /\ UNCHANGED apiVars
    /\ UNCHANGED <<call_data, now_date, coordinator, helper, matching>>

\* line 460: coordinator.async_refresh()
refresh_after_service(ok, appointments) ==
    /\ hpc = "service_refresh"
    /\ ~ok => appointments = <<>>
    /\ coordinator' =
          IF ok
          THEN [has_data |-> TRUE, appointments |-> appointments,
                last_update_success |-> TRUE]
          ELSE [coordinator EXCEPT !.last_update_success = FALSE]
    /\ sent' = Append(sent, [op |-> "refresh"])
    /\ hpc' = "service_returned"
    /\ UNCHANGED apiVars
    /\ UNCHANGED <<call_data, now_date, helper, matching>>

\* booking_helper calls for the slot search: next Wednesday around 12:55
\* within two hours, with and without auto_book
CallsSearching ==
    [target_date : {None},
     target_day_of_week : {"wednesday"},
     target_time : {NoTime},
     tolerance_hours : {120},
     min_days_from_last_appointment : {0},
     auto_book : BOOLEAN]

\* book_appointment calls
CallsBooking ==
    [session_id : {1}, session_date : {FirstDay + 2},
     session_time : {<<"T", "1", "2", "2", "0">>}]

\* the API object before and after the login of the setup
LoggedOutOrIn ==
    /\ _access_token \in {None, 1}
    /\ _refresh_token = _access_token
    /\ _donor_id = _access_token
    /\ issued = _access_token
    /\ always401 = FALSE
    /\ calls = [t \in {1} |-> IdleTask]

\* the slot lists the session that is queried next may answer with
NextSlotLists ==
    IF hpc = "slots"
    THEN SlotLists(matching.available_sessions[matching.queried + 1].session_id)
    ELSE {}

\* the appointment lists a refresh after a booking may fetch: the cached
\* list, or the cached appointment and the new one
RefreshedLists ==
    {<<Appointment("date", FirstDay - 40)>>,
     <<Appointment("date", FirstDay - 40), Appointment("date", FirstDay + 3)>>}

\* coordinator.data at the time of the call: one appointment, long past
CachedAtCall ==
    [has_data |-> TRUE,
     appointments |-> <<Appointment("date", FirstDay - 40)>>,
     last_update_success |-> TRUE]

\* A call of booking_helper or of the book_appointment service.  The calls
\* of booking_helper either start without a token (and do not book) or start
\* with the token of the setup.
InitSearch ==
    /\ LoggedOutOrIn
    /\ now_date = FirstDay
    /\ coordinator = CachedAtCall
    /\ helper = NoLocals
    /\ matching = NoMatch
    /\ sent = <<>>
    /\ \/ /\ hpc = "called"
          /\ call_data \in CallsSearching
          /\ _access_token = None => ~call_data.auto_book
       \/ hpc = "service_called" /\ call_data \in CallsBooking

NextSearch ==
    \/ booking_helper_called
    \/ compute_target
    \/ \E outcome \in LoginOutcomes : login_if_no_token(outcome)
    \/ \E outcome \in QueryOutcomes, sessions \in SessionLists(helper.target_date) :
          sessions_answered(outcome, sessions)
    \/ \E outcome \in QueryOutcomes, slots \in NextSlotLists :
          slots_answered(outcome, slots)
    \/ \E outcome \in BookOutcomes : booking_answered(outcome)
    \/ \E ok \in BOOLEAN, appointments \in RefreshedLists :
          refresh_after_booking(ok, appointments)
    \/ \E outcome \in LoginOutcomes : service_login(outcome)
    \/ \E outcome \in BookOutcomes : service_booking_answered(outcome)
    \/ \E ok \in BOOLEAN, appointments \in RefreshedLists :
          refresh_after_service(ok, appointments)

SpecSearch == InitSearch /\ [][NextSearch]_vars

-----------------------------------------------------------------------------
(* Properties of the API client *)

\* C1: against a backend that answers 401 to every authenticated request, one
\* call of an authenticated operation performs one login() and retries the
\* request at most once (at most two requests are sent), whether or not the
\* logins succeed.
C1_ReauthOnce ==
    always401 =>
        \A t \in Tasks : calls[t].logins <= 1 /\ calls[t].requests <= 2

LoginReturnsFalse(t) == calls[t].pc = "login" /\ calls'[t].loginRet = "false"

LoginReturnsTrue(t) == calls[t].pc = "login" /\ calls'[t].loginRet = "true"

\* C3: a login() that fails (timeout, connection error, non-200 status,
\* unparsable body) returns False and leaves the stored access token, refresh
\* token and donor id as they were.
C3_FailedLoginKeepsTokens ==
    [][\A t \in Tasks :
          LoginReturnsFalse(t) =>
              /\ _access_token' = _access_token
              /\ _refresh_token' = _refresh_token
              /\ _donor_id' = _donor_id
              /\ calls[t].op = "login" => calls'[t].result = "false"]_vars

C3_Witness ==
    \E t \in Tasks :
        /\ calls[t].op = "login"
        /\ calls[t].loginRet = "false"
        /\ calls[t].result = "false"
        /\ _access_token # None
        /\ _refresh_token # None
        /\ _donor_id # None

\* C4: when login() returns True the stored access token, refresh token and
\* donor id are those of that login's response (the donor id none when the
\* response carries none), and the access token is present.
C4_LoginStoresResponse ==
    [][\A t \in Tasks :
          LoginReturnsTrue(t) =>
              /\ _access_token' = issued'
              /\ _refresh_token' = issued'
              /\ _donor_id' \in {None, issued'}
              /\ _access_token' # None]_vars

\* C5: in every reachable state the stored access token, refresh token and
\* donor id come from one and the same login response.
C5_TokensFromOneLogin ==
    /\ _access_token = _refresh_token
    /\ _donor_id # None => _donor_id = _access_token

-----------------------------------------------------------------------------
(* Properties of booking_helper *)

\* the handler has computed the earliest allowed date
EarliestComputed == hpc = "search" \/ helper.exception = "UnboundLocalError"

ParseableDates(appointments) ==
    {appointments[i].date : i \in {j \in 1..Len(appointments) : appointments[j].kind = "date"}}

SetMax(S) == CHOOSE x \in S : \A y \in S : y <= x

\* C6: with at least one appointment of parseable date in the coordinator's
\* data, earliest_allowed_date = max(L + min_days_from_last_appointment, today)
\* for L the latest appointment date, past or future.
C6_EarliestFromLatestAppointment ==
    (/\ EarliestComputed
     /\ coordinator.has_data
     /\ ParseableDates(coordinator.appointments) # {}) =>
        helper.earliest_allowed_date =
            Max(SetMax(ParseableDates(coordinator.appointments))
                    + call_data.min_days_from_last_appointment,
                now_date)

C6_Witness ==
    /\ EarliestComputed
    /\ coordinator.has_data
    /\ Len(coordinator.appointments) = 2
    /\ coordinator.appointments[1].kind = "date"
    /\ coordinator.appointments[2].kind = "date"
    /\ coordinator.appointments[1].date > coordinator.appointments[2].date
    /\ coordinator.appointments[1].date > now_date
    /\ call_data.min_days_from_last_appointment = 14
    /\ helper.earliest_allowed_date = coordinator.appointments[1].date + 14

\* C7: with account data that holds no appointment of parseable date,
\* earliest_allowed_date = max(today - 60 + min_days_from_last_appointment,
\* today), which is today for every min_days_from_last_appointment <= 60.
C7_EarliestWithoutAppointments ==
    (/\ EarliestComputed
     /\ coordinator.has_data
     /\ ParseableDates(coordinator.appointments) = {}) =>
        /\ helper.earliest_allowed_date =
              Max(now_date - 60 + call_data.min_days_from_last_appointment, now_date)
        /\ call_data.min_days_from_last_appointment <= 60 =>
              helper.earliest_allowed_date = now_date

C7_Witness ==
    /\ EarliestComputed
    /\ coordinator.has_data
    /\ Len(coordinator.appointments) = 2
    /\ ParseableDates(coordinator.appointments) = {}
    /\ call_data.min_days_from_last_appointment = 61
    /\ helper.earliest_allowed_date = now_date + 1

\* C8: the resolved target date is the first date on or after
\* earliest_allowed_date whose weekday is the requested one: the weekday
\* matches, the advance is 0..6 days, and it is 0 exactly when
\* earliest_allowed_date falls on the requested weekday.
C8_NextOccurrenceOfWeekday ==
    hpc = "search" =>
        LET earliest == helper.earliest_allowed_date
            target == helper.target_date
            idx == DAYS_OF_WEEK[call_data.target_day_of_week]
        IN /\ weekday(target) = idx
           /\ target >= earliest
           /\ target - earliest \in 0..6
           /\ (target = earliest) <=> (weekday(earliest) = idx)
           /\ \A d \in earliest..(target - 1) : weekday(d) # idx

C8_Witness ==
    /\ hpc = "search"
    /\ helper.earliest_allowed_date > now_date
    /\ helper.target_date = helper.earliest_allowed_date
    /\ weekday(helper.earliest_allowed_date) = DAYS_OF_WEEK[call_data.target_day_of_week]

\* C9: a call with an explicit target_date searches the sessions of exactly
\* that date and completes with a structured result.
C9_ExplicitDateUsed ==
    (/\ call_data.target_date # None
     /\ hpc \in {"search", "raised", "returned"}
     /\ helper.exception # "ValueError") =>
        /\ hpc # "raised"
        /\ hpc = "search" => helper.target_date = call_data.target_date

\* C10: the search window lies within 00:00:00 .. 23:59:59 of the target
\* date, whatever the target time and the tolerance.
C10_WindowWithinTargetDate ==
    hpc = "search" =>
        /\ helper.start_datetime >= helper.target_date * 86400
        /\ helper.end_datetime <= helper.target_date * 86400 + 86399

C10_Witness ==
    /\ hpc = "search"
    /\ call_data.tolerance_hours = 1800
    /\ helper.target_datetime - 1800 * 60 < helper.target_date * 86400
    /\ helper.target_datetime + 1800 * 60 > helper.target_date * 86400 + 86399
    /\ helper.start_datetime = helper.target_date * 86400
    /\ helper.end_datetime = helper.target_date * 86400 + 86399

-----------------------------------------------------------------------------
(* Properties of the slot search *)

BestSlotChosen == matching.best_slot # NoSlot

\* the four characters HHMM of a slot time, which the backend writes with a
\* leading "T"
ClockDigits(time) ==
    IF Len(time) = 5 /\ time[1] = "T" THEN SubSeq(time, 2, 5) ELSE time

ClockHour(time) == 10 * DigitValue(ClockDigits(time)[1]) + DigitValue(ClockDigits(time)[2])

ClockMinute(time) == 10 * DigitValue(ClockDigits(time)[3]) + DigitValue(ClockDigits(time)[4])

\* the time is four digits HHMM of an hour 00..23 and a minute 00..59
WellFormedTime(time) ==
    /\ Len(ClockDigits(time)) = 4
    /\ \A i \in 1..4 : IsDigit(ClockDigits(time)[i])
    /\ ClockHour(time) \in 0..23
    /\ ClockMinute(time) \in 0..59

\* slot_datetime of a slot time that is well formed
SlotDatetime(time) ==
    helper.target_date * 86400 + ClockHour(time) * 3600 + ClockMinute(time) * 60

\* the distance of a slot time from the target when the time is well formed
\* and lies within the window, -1 when the slot does not survive
SurvivingDistance(time) ==
    IF /\ WellFormedTime(time)
       /\ helper.start_datetime <= SlotDatetime(time)
       /\ SlotDatetime(time) <= helper.end_datetime
    THEN abs(SlotDatetime(time) - helper.target_datetime)
    ELSE -1

\* the slots the backend answered with, in the order the handler met them,
\* each with the session whose query it answers and its distance
AnsweredSlots ==
    LET queries == SelectSeq(sent, LAMBDA q : q.op = "slots")
        RECURSIVE flat(_)
        flat(i) ==
            IF i > Len(queries) THEN <<>>
            ELSE [k \in 1..Len(queries[i].answer) |->
                     [time |-> queries[i].answer[k].time,
                      session_id |-> queries[i].session_id,
                      distance |-> SurvivingDistance(queries[i].answer[k].time)]]
                 \o flat(i + 1)
    IN flat(1)

Surviving(slot) == slot.distance >= 0

Distance(slot) == slot.distance

\* C11: the slot the handler selects (and books, and reports) has a time
\* that parses, lies within the clamped window of the target date
\* (start_datetime <= slot_datetime <= end_datetime) and belongs to a session
\* of the answer with a period of availableSlots > 0; every slot kept in
\* all_slots lies within the window.
C11_SelectedSlotWithinWindow ==
    BestSlotChosen =>
        LET best == matching.best_slot IN
        /\ WellFormedTime(best.time)
        /\ best.slot_datetime \in
              (helper.target_date * 86400)..(helper.target_date * 86400 + 86399)
        /\ helper.start_datetime <= best.slot_datetime
        /\ best.slot_datetime <= helper.end_datetime
        /\ \E i \in 1..Len(matching.sessions) :
              /\ matching.sessions[i].sessionId = best.session_id
              /\ \E p \in 1..Len(matching.sessions[i].periods) :
                    matching.sessions[i].periods[p].availableSlots > 0
        /\ \A k \in 1..Len(matching.all_slots) :
              /\ helper.start_datetime <= matching.all_slots[k].slot_datetime
              /\ matching.all_slots[k].slot_datetime <= helper.end_datetime
        /\ helper.response_data.appointment # NoAppointment =>
              /\ helper.response_data.appointment.session_id = best.session_id
              /\ helper.response_data.appointment.session_time = best.time

\* a slot outside the window and a slot of unparsable time were answered, a
\* session without availability was listed, and a slot was selected
C11_Witness ==
    /\ BestSlotChosen
    /\ hpc = "returned"
    /\ \E i \in 1..Len(sent) :
          /\ sent[i].op = "slots"
          /\ \E k \in 1..Len(sent[i].answer) :
                sent[i].answer[k].time = <<"T", "0", "9", "0", "0">>
    /\ \E i \in 1..Len(sent) :
          /\ sent[i].op = "slots"
          /\ \E k \in 1..Len(sent[i].answer) :
                sent[i].answer[k].time = <<"1", "2", ":", "2", "0">>
    /\ helper.response_data.appointment # NoAppointment

\* C12: the selected slot minimises |slot_datetime - target_datetime| among
\* the answered slots that parse and lie within the window: with 12:55 as
\* target and slots at 13:40 and 12:20 it is the one at 12:20.
C12_SelectedSlotIsClosest ==
    BestSlotChosen =>
        LET answered == AnsweredSlots
            best == matching.best_slot
            best_distance == abs(best.slot_datetime - helper.target_datetime)
        IN /\ \E k \in 1..Len(answered) :
                 /\ answered[k].time = best.time
                 /\ answered[k].session_id = best.session_id
                 /\ Surviving(answered[k])
                 /\ SlotDatetime(answered[k].time) = best.slot_datetime
           /\ \A k \in 1..Len(answered) :
                 Surviving(answered[k]) => best_distance <= Distance(answered[k])

\* target 12:55; session 1 answers 13:40, session 2 answers 12:20; the slot
\* at 12:20, met second, is selected
C12_Witness ==
    /\ BestSlotChosen
    /\ helper.target_time = 12 * 3600 + 55 * 60
    /\ Len(AnsweredSlots) = 2
    /\ AnsweredSlots[1].time = <<"T", "1", "3", "4", "0">>
    /\ AnsweredSlots[2].time = <<"T", "1", "2", "2", "0">>
    /\ matching.best_slot.time = <<"T", "1", "2", "2", "0">>
    /\ matching.best_slot.session_id = 2

SessionQuery == sent[1]

\* C14: when the session query returns sessions and every period of every
\* one of them has availableSlots = 0, the handler returns success = false
\* with the error "No available slots" and has sent no slot query and no
\* booking request.
C14_NoAvailabilityStops ==
    (/\ sent # <<>>
     /\ SessionQuery.op = "sessions"
     /\ SessionQuery.answer # <<>>
     /\ \A i \in 1..Len(SessionQuery.answer) :
           \A p \in 1..Len(SessionQuery.answer[i].periods) :
               SessionQuery.answer[i].periods[p].availableSlots = 0) =>
        /\ hpc = "returned"
        /\ helper.response_data.success = FALSE
        /\ helper.response_data.error = "No available slots"
        /\ helper.response_data.appointment = NoAppointment
        /\ Len(sent) = 1

\* two sessions, each with two periods of availableSlots = 0, auto_book set
C14_Witness ==
    /\ hpc = "returned"
    /\ call_data.auto_book
    /\ Len(sent) = 1
    /\ SessionQuery.op = "sessions"
    /\ Len(SessionQuery.answer) = 2
    /\ \A i \in 1..2 : Len(SessionQuery.answer[i].periods) = 2
    /\ \A i \in 1..2 : ~has_availability(SessionQuery.answer[i])
    /\ helper.response_data.error = "No available slots"

\* C15: the one session query of a booking_helper call asks for the target
\* date only (startDate = endDate = target date); when it returns no session
\* the handler returns success = false with the error "No sessions
\* available" and has sent no slot query and no booking request, with
\* auto_book as without.
C15_NoSessionsStops ==
    /\ \A i \in 1..Len(sent) :
          sent[i].op = "sessions" =>
              /\ i = 1
              /\ sent[i].params.startDate = helper.target_date
              /\ sent[i].params.endDate = helper.target_date
    /\ (/\ sent # <<>>
        /\ SessionQuery.op = "sessions"
        /\ SessionQuery.result # "raised"
        /\ SessionQuery.answer = <<>>) =>
           /\ hpc = "returned"
           /\ helper.response_data.success = FALSE
           /\ helper.response_data.error = "No sessions available"
           /\ helper.response_data.appointment = NoAppointment
           /\ Len(sent) = 1

\* the backend answers the query of an auto_book call with an empty list
C15_Witness ==
    /\ hpc = "returned"
    /\ call_data.auto_book
    /\ Len(sent) = 1
    /\ SessionQuery.op = "sessions"
    /\ SessionQuery.result = "list"
    /\ SessionQuery.answer = <<>>
    /\ SessionQuery.params = [startDate |-> helper.target_date, endDate |-> helper.target_date]
    /\ helper.response_data.error = "No sessions available"

\* the call is one of the book_appointment service
InService ==
    hpc \in {"service_called", "service_logged_in", "service_refresh", "service_returned"}

\* the booking requests sent so far
BookingRequests == SelectSeq(sent, LAMBDA q : q.op = "book")

Refreshes == SelectSeq(sent, LAMBDA q : q.op = "refresh")

\* C16: without auto_book the handler sends no booking request and triggers
\* no refresh, and when a slot was selected it returns success = true with
\* that slot as the appointment; with auto_book and a selected slot it has,
\* when it returns, sent one booking request, which carries the session id,
\* session date and time of the selected slot.
C16_BooksOnlyWithAutoBook ==
    ~InService =>
        /\ ~call_data.auto_book =>
              /\ BookingRequests = <<>>
              /\ Refreshes = <<>>
              /\ BestSlotChosen =>
                    /\ hpc = "returned"
                    /\ helper.response_data.success = TRUE
                    /\ helper.response_data.error = "None"
                    /\ helper.response_data.appointment =
                          [date |-> helper.target_date,
                           session_id |-> matching.best_slot.session_id,
                           session_date |-> matching.best_slot.session_date,
                           session_time |-> matching.best_slot.time,
                           time_difference |-> matching.best_slot.time_difference]
        /\ call_data.auto_book =>
              /\ Len(BookingRequests) <= 1
              /\ BookingRequests # <<>> =>
                    /\ BestSlotChosen
                    /\ BookingRequests[1].session_id = matching.best_slot.session_id
                    /\ BookingRequests[1].session_date = matching.best_slot.session_date
                    /\ BookingRequests[1].session_time = matching.best_slot.time
              /\ (BestSlotChosen /\ hpc = "returned") => Len(BookingRequests) = 1

\* an auto_book call selected the slot at 12:20 of session 2 out of three
\* answered slots and sent the booking request for it
C16_Witness ==
    /\ hpc = "returned"
    /\ call_data.auto_book
    /\ BestSlotChosen
    /\ Len(AnsweredSlots) = 3
    /\ matching.best_slot.session_id = 2
    /\ matching.best_slot.time = <<"T", "1", "2", "2", "0">>
    /\ Len(BookingRequests) = 1
    /\ BookingRequests[1].session_id = 2
    /\ BookingRequests[1].session_time = <<"T", "1", "2", "2", "0">>

\* the appointment that reports the selected slot
Candidate ==
    [date |-> helper.target_date,
     session_id |-> matching.best_slot.session_id,
     session_date |-> matching.best_slot.session_date,
     session_time |-> matching.best_slot.time,
     time_difference |-> matching.best_slot.time_difference]

\* C17: with auto_book, a booking answered 200 with status "B" gives a result
\* of success = true with the selected slot as appointment; a booking that
\* ends any other way (another status, a non-200 answer, a failed re-login,
\* an unparsable body, a timeout or connection error) gives success = false,
\* an error that is not null and the selected slot still as appointment.
C17_BookingResultReported ==
    (~InService /\ BookingRequests # <<>>) =>
        /\ BookingRequests[1].outcome = "ok" =>
              /\ helper.response_data.success = TRUE
              /\ helper.response_data.error = "None"
              /\ helper.response_data.appointment = Candidate
        /\ BookingRequests[1].outcome # "ok" =>
              /\ hpc = "returned"
              /\ helper.response_data.success = FALSE
              /\ helper.response_data.error # "None"
              /\ helper.response_data.appointment = Candidate
              /\ helper.response_data.appointment # NoAppointment

\* the booking of the selected slot is answered 200 with a status other than
\* "B"
C17_Witness ==
    /\ hpc = "returned"
    /\ BookingRequests # <<>>
    /\ BookingRequests[1].outcome = "ok_pending"
    /\ helper.response_data.success = FALSE
    /\ helper.response_data.error = "Booking returned status"
    /\ helper.response_data.appointment.session_time = matching.best_slot.time

\* C18: coordinator.async_refresh() follows a booking request exactly when
\* the booking was confirmed (200 with status "B"), in booking_helper with
\* auto_book and in the book_appointment service: every refresh directly
\* follows a confirmed booking, every confirmed booking is followed by a
\* refresh, and as long as no refresh ran (no booking, or a booking that
\* failed) the coordinator's data are those at the time of the call.
C18_RefreshOnlyAfterConfirmedBooking ==
    /\ \A i \in 1..Len(sent) :
          sent[i].op = "refresh" =>
              /\ i > 1
              /\ sent[i - 1].op = "book"
              /\ sent[i - 1].outcome = "ok"
    /\ \A i \in 1..Len(sent) :
          sent[i].op = "book" =>
              IF sent[i].outcome = "ok"
              THEN \/ i = Len(sent) /\ hpc \in {"refresh", "service_refresh"}
                   \/ i = Len(sent) - 1 /\ sent[i + 1].op = "refresh"
              ELSE /\ i = Len(sent)
                   /\ hpc \in {"returned", "service_returned"}
                   /\ coordinator = CachedAtCall
    /\ Refreshes = <<>> => coordinator = CachedAtCall

\* the book_appointment service booked the slot and the refresh fetched an
\* appointment list that differs from the cached one
C18_Witness ==
    /\ hpc = "service_returned"
    /\ Len(sent) = 2
    /\ sent[1].op = "book"
    /\ sent[1].outcome = "ok"
    /\ sent[2].op = "refresh"
    /\ coordinator.appointments # CachedAtCall.appointments
    /\ coordinator.last_update_success

-----------------------------------------------------------------------------
(* Properties of book_appointment and the session and slot queries *)

\* the step in which task t's call of op ends with this outcome of its last
\* request
Ends(t, op, outcome) ==
    /\ calls[t].op = op
    /\ outcome # "unauthorized"
    /\ Respond(t, outcome)

\* C19: book_appointment returns success only for a 200 answer whose status
\* is "B"; a 200 answer with another status gives success false with the
\* error "Booking returned status: <status>", which no other failure gives
\* (a failed re-login, a non-200 answer, an unparsable body, a timeout or a
\* connection error); book_appointment always returns a result.
C19_BookedOnlyOnStatusB ==
    [][\A t \in Tasks :
          /\ \A outcome \in RequestOutcomes :
                Ends(t, "book", outcome) =>
                    /\ calls'[t].pc = "done"
                    /\ (calls'[t].result = "booked") <=> (outcome = "ok")
                    /\ (calls'[t].result = "Booking returned status")
                           <=> (outcome = "ok_pending")
          /\ (calls[t].op = "book" /\ calls'[t].pc = "done") =>
                calls'[t].result \in
                    {"booked", "Booking returned status", "Authentication failed",
                     "response_text", "Failed to parse booking response",
                     "str(error)"}]_vars

\* a booking answered 200 with a status other than "B" has returned
C19_Witness ==
    \E t \in Tasks :
        /\ calls[t].op = "book"
        /\ calls[t].pc = "done"
        /\ calls[t].requests = 2
        /\ calls[t].result = "Booking returned status"

\* C20: get_sessions_for_date and get_slots_for_session return a list to
\* their caller however the request ends: the list of the answer, or an
\* empty list on a failure.
C20_QueriesReturnLists ==
    \A t \in Tasks :
        (calls[t].op \in {"sessions", "slots"} /\ calls[t].pc = "done") =>
            calls[t].result \in {"list", "empty_list"}

-----------------------------------------------------------------------------
(* C21 *)

\* C21: a booking_helper call that gives neither target_date nor
\* target_day_of_week takes one step only, the return of success = false with
\* the error set and no appointment; that step leaves the cached account
\* data, the tokens and the request log as they were (no refresh, no login,
\* no session or slot query, no booking).
C21_MissingDateRejectedFirst ==
    [][(call_data.target_date = None /\ call_data.target_day_of_week = "None")
        => /\ hpc = "called"
           /\ hpc' = "returned"
           /\ helper'.response_data.success = FALSE
           /\ helper'.response_data.error =
                  "Either target_date or target_day_of_week must be provided"
           /\ helper'.response_data.appointment = NoAppointment
           /\ coordinator' = coordinator
           /\ sent' = sent
           /\ sent = <<>>
           /\ UNCHANGED apiVars]_vars

C21_Witness ==
    /\ call_data.target_date = None
    /\ call_data.target_day_of_week = "None"
    /\ hpc = "returned"
    /\ helper.response_data.error # "None"
    /\ ~coordinator.has_data

-----------------------------------------------------------------------------
(* C22 *)

\* C22: no invocation of booking_helper lets an exception escape to its
\* caller.  Stated for the calls that give a day of week and no date (a call
\* with target_date already fails at line 391, see C9): the handler never
\* ends by raising.  Refuted by target_time "24:00": normalize_time keeps it,
\* time(24, 0) at line 361 raises ValueError, and line 361 is outside the
\* try of line 425.
C22_NoExceptionEscapes ==
    (call_data.target_date = None /\ call_data.target_day_of_week # "None")
        => hpc # "raised"

-----------------------------------------------------------------------------
(* C23 *)

\* C23: an authentication failure at a sub-step of the search (a 401 whose
\* re-login fails during the session query, a slot query or the booking)
\* ends the run there, with no further request, and the result carries a
\* failed-to-login error.  Refuted: get_sessions_for_date and
\* get_slots_for_session answer the failed re-login with [], which the
\* handler reads as "no sessions" or as a session without slots.
C23_AuthFailureHalts ==
    \A i \in 1..Len(sent) :
        (sent[i].op \in {"sessions", "slots", "book"}
            /\ sent[i].outcome = "relogin_failed")
        => /\ i = Len(sent)
           /\ hpc = "returned"
           /\ helper.response_data.error \in
                 {"Failed to login to Blood Donor service", "Authentication failed"}

-----------------------------------------------------------------------------
(* The update scheduler of the coordinator (blood_donor.py, lines 278-411)  *)
(* and get_next_appointment (utils.py).  Intervals and differences of       *)
(* datetimes are in seconds.                                                 *)

STANDARD_SCAN_INTERVAL == 24 * SecondsPerHour
APPOINTMENT_SCAN_INTERVAL == 1 * SecondsPerHour

\* An appointment of the account data as the scheduler reads it: by what its
\* session date is (see Appointment; "null_date" is a sessionDate of null),
\* and its time, "T" and four digits, or <<>> when the key is absent.
BookedAppointment(kind, date, time) == [kind |-> kind, date |-> date, time |-> time]

NoBooked == BookedAppointment("none", None, <<>>)

\* utils.py lines 13-15, the sort key of one entry: the exception that
\* x["session"]["sessionDate"].split("T")[0] or strptime raises, if any
key_exception(apt) ==
    CASE apt.kind = "date"     -> "None"
      [] apt.kind = "missing"  -> "KeyError"
      [] apt.kind = "bad_date" -> "ValueError"
      [] OTHER                 -> "AttributeError"

\* sorted() computes the keys in list order: the first exception ends it
RECURSIVE first_key_exception(_)
first_key_exception(appointments) ==
    IF appointments = <<>> THEN "None"
    ELSE IF key_exception(Head(appointments)) # "None"
         THEN key_exception(Head(appointments))
    ELSE first_key_exception(Tail(appointments))

\* sorted() is stable: an entry goes behind the entries of the same date
\* that precede it in the list
RECURSIVE insert_by_date(_, _)
insert_by_date(apt, sorted) ==
    IF sorted = <<>> THEN <<apt>>
    ELSE IF apt.date < Head(sorted).date THEN <<apt>> \o sorted
    ELSE <<Head(sorted)>> \o insert_by_date(apt, Tail(sorted))

RECURSIVE sorted_by_date(_, _)
sorted_by_date(appointments, sorted) ==
    IF appointments = <<>> THEN sorted
    ELSE sorted_by_date(Tail(appointments), insert_by_date(Head(appointments), sorted))

\* utils.py lines 5-19: the entry returned (NoBooked for None), or the
\* exception that leaves the function
get_next_appointment(appointments) ==
    IF appointments = <<>>
    THEN [raised |-> "None", entry |-> NoBooked]
    ELSE LET exception == first_key_exception(appointments) IN
         IF exception = "None"
         THEN [raised |-> "None", entry |-> sorted_by_date(appointments, <<>>)[1]]
         ELSE IF exception \in {"KeyError", "ValueError", "IndexError"}
         THEN [raised |-> "None", entry |-> NoBooked]
         ELSE [raised |-> exception, entry |-> NoBooked]

\* blood_donor.py lines 354-363: the time of day of the appointment, noon
\* when the time has fewer than four characters, -1 for the ValueError of
\* int() or time()
time_unchecked(time) ==
    LET time_str == remove_T(time)
        hour == int_of(SubSeq(time_str, 1, 2), 0)
        minute == int_of(SubSeq(time_str, 3, Len(time_str)), 0)
    IN IF Len(time_str) < 4 THEN 12 * SecondsPerHour
       ELSE hour * SecondsPerHour + minute * SecondsPerMinute

appointment_time_of(time) ==
    LET time_str == remove_T(time)
        hour == int_of(SubSeq(time_str, 1, 2), 0)
        minute == int_of(SubSeq(time_str, 3, Len(time_str)), 0)
    IN IF Len(time_str) < 4 THEN 12 * SecondsPerHour
       ELSE IF hour \in 0..23 /\ minute \in 0..59
       THEN hour * SecondsPerHour + minute * SecondsPerMinute
       ELSE -1

forgets_dynamic_interval(coord, interval) ==
    IF coord.update_interval # interval
    THEN [coord |-> [coord EXCEPT !.update_interval = interval],
          scheduled |-> TRUE]
    ELSE [coord |-> coord, scheduled |-> FALSE]

always_reschedule(coord, interval) ==
    [coord |-> [coord EXCEPT !._dynamic_update_interval = interval,
                             !.update_interval = interval],
     scheduled |-> TRUE]

\* blood_donor.py lines 403-411: the coordinator's fields afterwards, and
\* whether _schedule_refresh() was called
_set_update_interval(coord, interval) ==
    IF coord.update_interval # interval
    THEN [coord |-> [coord EXCEPT !._dynamic_update_interval = interval,
                                  !.update_interval = interval],
          scheduled |-> TRUE]
    ELSE [coord |-> coord, scheduled |-> FALSE]

near_all_day(appointment_date, appointment_datetime, now) ==
    IF appointment_date = now \div SecondsPerDay THEN APPOINTMENT_SCAN_INTERVAL
    ELSE IF appointment_datetime - now <= 4 * SecondsPerHour
         THEN APPOINTMENT_SCAN_INTERVAL
    ELSE STANDARD_SCAN_INTERVAL

\* lines 367-393: the interval for the appointment of appointment_date at
\* appointment_datetime, read at `now`
selected_interval(appointment_date, appointment_datetime, now) ==
    LET today == now \div SecondsPerDay
        time_until_appointment == appointment_datetime - now
    IN IF appointment_date = today
       THEN IF time_until_appointment > 1 * SecondsPerHour
            THEN APPOINTMENT_SCAN_INTERVAL
            ELSE IF time_until_appointment >= (-8) * SecondsPerHour
            THEN APPOINTMENT_SCAN_INTERVAL
            ELSE STANDARD_SCAN_INTERVAL
       ELSE IF time_until_appointment <= 4 * SecondsPerHour
            THEN APPOINTMENT_SCAN_INTERVAL
       ELSE STANDARD_SCAN_INTERVAL

\* lines 329-401: _adjust_update_interval(data) with data["appointments"]
\* and the datetime.now() of line 333
_adjust_update_interval(coord, appointments, now) ==
    IF appointments = <<>>
    THEN _set_update_interval(coord, STANDARD_SCAN_INTERVAL)
    ELSE LET next_appointment == get_next_appointment(appointments) IN
         IF next_appointment.raised # "None"
         THEN \* lines 399-401
              _set_update_interval(coord, STANDARD_SCAN_INTERVAL)
         ELSE IF next_appointment.entry = NoBooked
         THEN _set_update_interval(coord, STANDARD_SCAN_INTERVAL)
         ELSE LET appointment_date == next_appointment.entry.date
                  appointment_time == appointment_time_of(next_appointment.entry.time)
                  appointment_datetime == combine(appointment_date, appointment_time)
              IN IF appointment_time = -1
                 THEN \* lines 395-397
                      _set_update_interval(coord, STANDARD_SCAN_INTERVAL)
                 ELSE _set_update_interval(
                          [coord EXCEPT !._next_appointment_datetime = appointment_datetime],
                          selected_interval(appointment_date, appointment_datetime, now))

-----------------------------------------------------------------------------
(* The periodic refresh: _async_update_data, get_data, the scheduler.  The  *)
(* body of a 200 answer of the account endpoint is a JSON object with its    *)
(* appointments and donorID ("object"), the object {} ("empty_object") or a  *)
(* non-empty JSON array ("array").                                           *)

AccountBody(kind, appointments, donorID) ==
    [kind |-> kind, appointments |-> appointments, donorID |-> donorID]

\* account_data = None
NoData == AccountBody("none", <<>>, None)

\* the locals of one refresh: account_data of get_data, whether the awards
\* were added to it, what get_data handed back ("null", "data" or the
\* exception "UpdateFailed"), the datetime.now() of the scheduler, and how
\* _async_update_data ended ("data" returned or "UpdateFailed" raised)
RefreshLocals ==
    [account_data |-> NoData, awards |-> FALSE, data |-> "none", now |-> None,
     result |-> "none"]

fails_without_awards(account_data, awards_data) ==
    IF account_data.kind \in {"none", "empty_object"} THEN "null"
    ELSE IF awards_data # "data" \/ account_data.kind = "array" THEN "UpdateFailed"
    ELSE "data"

\* get_data lines 162-176: None, the account data, or UpdateFailed for the
\* TypeError of account_data["awards"] = awards_data on an array
get_data(account_data, awards_data) ==
    IF account_data.kind \in {"none", "empty_object"} THEN "null"
    ELSE IF account_data.kind = "array" /\ awards_data = "data" THEN "UpdateFailed"
    ELSE "data"

returns_whatever(data, account_data) == "data"

\* _async_update_data lines 299-327 for what get_data handed back: raise
\* UpdateFailed at 303 for None, at 327 for every exception (UpdateFailed
\* itself, the AttributeError of data.keys() on an array), else return data
_async_update_data(data, account_data) ==
    IF data = "null" THEN "UpdateFailed"
    ELSE IF data = "UpdateFailed" THEN "UpdateFailed"
    ELSE IF account_data.kind # "object" THEN "UpdateFailed"
    ELSE "data"

adjusts_always(result) == TRUE

\* lines 301-321: _adjust_update_interval(data) is reached when no
\* UpdateFailed was raised before it
adjusts(result) == result = "data"

\* where the refresh is once _async_update_data has ended
ended(result) == IF result = "data" THEN "updated" ELSE "update_failed"

\* get_data lines 156-160: login() when no access token is stored; None
\* when it returns False.
get_data_login(outcome) ==
    /\ hpc = "update"
    /\ _access_token = None
    /\ outcome \in {"ok_full", "ok_no_account"} => issued < MaxLogins
    /\ LET n == issued + 1
           r == login(Stored, outcome, n)
           result == _async_update_data("null", NoData)
       IN /\ _access_token' = r.access
          /\ _refresh_token' = r.refresh
          /\ _donor_id' = r.donor
          /\ issued' = IF r.ret THEN n ELSE issued
          /\ sent' = Append(sent, [op |-> "login", outcome |-> outcome])
          /\ IF r.ret
             THEN /\ hpc' = "account"
                  /\ UNCHANGED helper
             ELSE /\ hpc' = ended(result)
                  /\ helper' = [helper EXCEPT !.data = "null", !.result = result]
    /\ UNCHANGED <<always401, calls>>
    /\ UNCHANGED <<call_data, now_date, coordinator, matching>>

\* get_data lines 163-165: _get_account_details(); None ends get_data.
account_answered(outcome, body) ==
    /\ \/ hpc = "update" /\ _access_token # None
       \/ hpc = "account"
    /\ _get_account_details(outcome) # "data" => body = NoData
    /\ LET account_data == body
           result == _async_update_data("null", account_data)
       IN /\ sent' = Append(sent, [op |-> "account", outcome |-> outcome,
                                   result |-> _get_account_details(outcome)])
          /\ IF get_data(account_data, "null") = "null"
             THEN /\ hpc' = ended(result)
                  /\ helper' = [helper EXCEPT !.account_data = account_data,
                                              !.data = "null",
                                              !.result = result]
             ELSE /\ hpc' = "awards"
                  /\ helper' = [helper EXCEPT !.account_data = account_data]
    /\ UNCHANGED apiVars
    /\ UNCHANGED <<call_data, now_date, coordinator, matching>>

\* get_data lines 167-172 and _async_update_data lines 301-323:
\* _get_awards(), the donor id of the data, _adjust_update_interval(data)
\* read at time_of_day of now_date, the data returned.
awards_answered(outcome, time_of_day) ==
    /\ hpc = "awards"
    /\ LET awards_data == _get_awards(outcome)
           data == get_data(helper.account_data, awards_data)
           result == _async_update_data(data, helper.account_data)
           now == combine(now_date, time_of_day)
           adjusted == _adjust_update_interval(
                           coordinator, helper.account_data.appointments, now)
       IN /\ hpc' = ended(result)
          /\ coordinator' = IF adjusts(result) THEN adjusted.coord ELSE coordinator
          /\ sent' = sent \o <<[op |-> "awards", result |-> awards_data]>>
                          \o (IF adjusts(result) /\ adjusted.scheduled
                              THEN <<[op |-> "schedule_refresh",
                                      interval |-> adjusted.coord.update_interval]>>
                              ELSE <<>>)
          /\ IF result = "data"
             THEN /\ helper' = [helper EXCEPT !.awards = (awards_data = "data"),
                                              !.data = data,
                                              !.now = now,
                                              !.result = result]
                  /\ _donor_id' = IF helper.account_data.donorID # None
                                  THEN helper.account_data.donorID ELSE _donor_id
             ELSE /\ helper' = [helper EXCEPT !.data = data, !.result = result]
                  /\ UNCHANGED _donor_id
    /\ UNCHANGED <<_access_token, _refresh_token, issued, always401, calls>>
    /\ UNCHANGED <<call_data, now_date, matching>>

\* appointments of the account data: yesterday without time, today and
\* tomorrow at 01:00 and at 23:00, today without time, today with the times
\* "T2500" and "T1060"; without session date, with an unparsable one, with
\* a sessionDate of null
BookedEntries ==
    {BookedAppointment("date", d, t) :
        d \in {FirstDay, FirstDay + 1},
        t \in {<<"T", "0", "1", "0", "0">>, <<"T", "2", "3", "0", "0">>}}
    \cup {BookedAppointment("date", FirstDay - 1, <<>>),
          BookedAppointment("date", FirstDay, <<>>),
          BookedAppointment("date", FirstDay, <<"T", "2", "5", "0", "0">>),
          BookedAppointment("date", FirstDay, <<"T", "1", "0", "6", "0">>),
          BookedAppointment("missing", None, <<>>),
          BookedAppointment("bad_date", None, <<>>),
          BookedAppointment("null_date", None, <<>>)}

BookedLists == UNION {[1..n -> BookedEntries] : n \in 0..MaxAppointments}

\* the donorID of the account data (absent, or the donor's)
AccountDonorIDs == {None, 1}

AccountBodies ==
    {AccountBody("object", a, d) : a \in BookedLists, d \in AccountDonorIDs}
    \cup {AccountBody("empty_object", <<>>, None), AccountBody("array", <<>>, None)}

\* what the account request of a refresh ends with
NextAccountBodies(outcome) == IF outcome = "ok" THEN AccountBodies ELSE {NoData}

\* datetime.now() of the scheduler: 00:30:00, 09:00:00, 09:00:01, 20:59:59
\* and 21:00:00 of now_date
NowTimes == {1800, 32400, 32401, 75599, 75600}

\* the coordinator as constructed (lines 285-293), and after a refresh that
\* found an appointment at noon of now_date
Constructed ==
    [update_interval |-> STANDARD_SCAN_INTERVAL,
     _dynamic_update_interval |-> STANDARD_SCAN_INTERVAL,
     _next_appointment_datetime |-> None]

NearAppointment ==
    [update_interval |-> APPOINTMENT_SCAN_INTERVAL,
     _dynamic_update_interval |-> APPOINTMENT_SCAN_INTERVAL,
     _next_appointment_datetime |-> combine(FirstDay, 12 * SecondsPerHour)]

\* One refresh: the first one of the setup (no token, the coordinator as
\* constructed), or a later one with the token of an earlier login and the
\* hourly interval in force.
InitRefresh ==
    /\ LoggedOutOrIn
    /\ coordinator = IF _access_token = None THEN Constructed ELSE NearAppointment
    /\ hpc = "update"
    /\ now_date = FirstDay
    /\ helper = RefreshLocals
    /\ call_data = <<>>
    /\ matching = <<>>
    /\ sent = <<>>

NextRefresh ==
    \/ \E outcome \in LoginOutcomes : get_data_login(outcome)
    \/ \E outcome \in QueryOutcomes :
          \E body \in NextAccountBodies(outcome) : account_answered(outcome, body)
    \/ \E outcome \in QueryOutcomes, time_of_day \in NowTimes :
          awards_answered(outcome, time_of_day)

SpecRefresh == InitRefresh /\ [][NextRefresh]_vars

-----------------------------------------------------------------------------
(* Properties of the update scheduler *)

\* the datetime of an appointment whose date parses: its time of day, noon
\* when it has none
AppointmentAt(entry) ==
    entry.date * 86400
        + (IF entry.time = <<>> THEN 12 * 3600
           ELSE ClockHour(entry.time) * 3600 + ClockMinute(entry.time) * 60)

\* C24: when the refresh has ended with data and the next appointment is
\* dated today, the interval in force is one hour if the appointment is ahead
\* or at most 8 hours past, and 24 hours if it is more than 8 hours past.
C24_TodayNearUntilEightHoursPast ==
    LET next == get_next_appointment(helper.account_data.appointments).entry IN
    (/\ hpc = "updated"
     /\ next # NoBooked
     /\ next.date = now_date
     /\ (next.time = <<>> \/ WellFormedTime(next.time)))
        => coordinator.update_interval =
              IF AppointmentAt(next) - helper.now >= -(8 * 3600)
              THEN 3600 ELSE 24 * 3600

\* an appointment of 01:00 today read at 09:00:01 brings the hourly interval
\* back to 24 hours
C24_Witness ==
    /\ hpc = "updated"
    /\ helper.account_data.appointments =
          <<BookedAppointment("date", now_date, <<"T", "0", "1", "0", "0">>)>>
    /\ helper.now = now_date * 86400 + 32401
    /\ coordinator.update_interval = 24 * 3600
    /\ \E i \in 1..Len(sent) : sent[i].op = "schedule_refresh"

\* C25: after a refresh that ended with data, the interval in force is 24
\* hours when there is no appointment, and when the next appointment is not
\* dated today and does not lie within the next 4 hours (a date before today
\* included).  Refuted: for a next appointment dated before today the
\* difference to now is negative, hence below 4 hours, and line 386 selects
\* one hour.
C25_StandardUnlessNear ==
    LET appointments == helper.account_data.appointments
        next == get_next_appointment(appointments).entry
    IN hpc = "updated" =>
         /\ appointments = <<>> => coordinator.update_interval = 24 * 3600
         /\ (/\ next # NoBooked
             /\ next.date # now_date
             /\ ~(/\ helper.now <= AppointmentAt(next)
                  /\ AppointmentAt(next) <= helper.now + 4 * 3600))
            => coordinator.update_interval = 24 * 3600

\* the dates of the entries all parse
AllDated(appointments) ==
    \A i \in 1..Len(appointments) : appointments[i].kind = "date"

\* the times of the entries are absent or well formed
AllTimed(appointments) ==
    \A i \in 1..Len(appointments) :
        appointments[i].time = <<>> \/ WellFormedTime(appointments[i].time)

\* C26: the scheduler bases the interval on the soonest appointment by date
\* and then by time of day (noon without time): the datetime it keeps as
\* that of the next appointment is the least datetime of the list, whatever
\* the order of the list.  Refuted: the sort is by date only, so of two
\* appointments of the earliest date the first in the list is taken.
C26_SoonestByDateAndTime ==
    LET appointments == helper.account_data.appointments IN
    (/\ hpc = "updated"
     /\ appointments # <<>>
     /\ AllDated(appointments)
     /\ AllTimed(appointments))
        => \A i \in 1..Len(appointments) :
              coordinator._next_appointment_datetime <= AppointmentAt(appointments[i])

\* C27: for the appointment list of the refreshed data, get_next_appointment
\* does not raise; it returns null for the empty list and for a list with
\* an entry whose date is missing or does not parse, and otherwise an entry
\* of the list with the least date.  Refuted: an entry whose sessionDate is
\* null raises AttributeError, which the function does not catch.
C27_NextAppointmentTotal ==
    LET appointments == helper.account_data.appointments
        next == get_next_appointment(appointments)
    IN hpc = "updated" =>
         /\ next.raised = "None"
         /\ IF appointments = <<>> \/ ~AllDated(appointments)
            THEN next.entry = NoBooked
            ELSE /\ \E i \in 1..Len(appointments) : next.entry = appointments[i]
                 /\ \A i \in 1..Len(appointments) :
                       next.entry.date <= appointments[i].date

\* the calls of _schedule_refresh() in a request log
ScheduleCalls(log) == SelectSeq(log, LAMBDA q : q.op = "schedule_refresh")

\* C28: a refresh that ends with data calls _schedule_refresh() exactly when
\* the interval it selects differs from the one in force, once and after
\* storing the selected interval; when it selects the interval in force, the
\* interval fields stay as they were and nothing is scheduled.
C28_RescheduleOnlyOnChange ==
    [][hpc' = "updated" =>
         IF coordinator'.update_interval # coordinator.update_interval
         THEN /\ ScheduleCalls(sent') =
                    <<[op |-> "schedule_refresh",
                       interval |-> coordinator'.update_interval]>>
              /\ coordinator'._dynamic_update_interval = coordinator'.update_interval
         ELSE /\ ScheduleCalls(sent') = <<>>
              /\ coordinator'._dynamic_update_interval =
                    coordinator._dynamic_update_interval]_vars

\* a refresh left the hourly interval for the 24 hours and rescheduled
C28_Witness ==
    /\ hpc = "updated"
    /\ coordinator.update_interval = 24 * 3600
    /\ ScheduleCalls(sent) = <<[op |-> "schedule_refresh", interval |-> 24 * 3600]>>

-----------------------------------------------------------------------------
(* Properties of the data fetch of a refresh *)

\* the login of get_data returned False
LoginOfRefreshFailed ==
    /\ sent # <<>>
    /\ sent[1].op = "login"
    /\ sent[1].outcome \notin {"ok_full", "ok_no_account"}

AccountDetailsNull ==
    \E i \in 1..Len(sent) : sent[i].op = "account" /\ sent[i].result = "null"

-----------------------------------------------------------------------------
(* Ownership of the token state *)

\* C31: the access token, the refresh token and the donor id change only in
\* a step of login().  Refuted: after a fetch that succeeded,
\* _async_update_data stores the donorID of the account data in
\* api._donor_id (line 313).
C31_OnlyLoginWritesTokens ==
    [][<<_access_token, _refresh_token, _donor_id>>' #
         <<_access_token, _refresh_token, _donor_id>>
       => /\ Len(sent') = Len(sent) + 1
          /\ sent'[Len(sent')].op = "login"]_vars

-----------------------------------------------------------------------------
(* The venue_search service (services.py, lines 490-630).  Distances are in *)
(* whole miles.  call.data is [has_max_distance, max_distance]; a venue of   *)
(* the answer is [venueId, has_distance, venueDistance].                     *)

\* longest list of venues the backend answers with
MaxVenues == 2

\* line 502: call.data.get("max_distance", 20.0)
DefaultMaxDistance == 20

max_distance_of(data) ==
    IF data.has_max_distance THEN data.max_distance ELSE DefaultMaxDistance

\* line 570: v.get("venueDistance", 0)
venue_distance(v) == IF v.has_distance THEN v.venueDistance ELSE 0

\* lines 568-570: the filter is applied when max_distance is truthy
filter_venues(venues, max_distance) ==
    IF max_distance # 0
    THEN SelectSeq(venues, LAMBDA v : venue_distance(v) <= max_distance)
    ELSE venues

\* the locals of venue_search: the venues it reports and the notification
\* it creates ("results", "none_found", "failed", "error" or "none")
VenueLocals == [venues |-> <<>>, notification |-> "none"]

\* Lines 520-525: login() when no access token is stored; the handler
\* returns when there is none afterwards.
venue_search_login(outcome) ==
    /\ hpc = "venue_called"
    /\ _access_token = None
    /\ outcome \in {"ok_full", "ok_no_account"} => issued < MaxLogins
    /\ LET n == issued + 1
           r == login(Stored, outcome, n)
       IN /\ _access_token' = r.access
          /\ _refresh_token' = r.refresh
          /\ _donor_id' = r.donor
          /\ issued' = IF r.ret THEN n ELSE issued
          /\ hpc' = IF r.access = None THEN "venue_returned" ELSE "venue_logged_in"
    /\ sent' = Append(sent, [op |-> "login", outcome |-> outcome])
    /\ UNCHANGED <<always401, calls>>
    /\ UNCHANGED <<call_data, now_date, coordinator, helper, matching>>

\* Lines 527-630: the venues request, the filter by max_distance and the
\* notification.
venues_answered(outcome, venues) ==
    /\ \/ hpc = "venue_called" /\ _access_token # None
       \/ hpc = "venue_logged_in"
    /\ outcome # "ok" => venues = <<>>
    /\ LET max_distance == max_distance_of(call_data)
           filtered == filter_venues(venues, max_distance)
       IN helper' =
            CASE outcome = "ok" ->
                   [venues |-> filtered,
                    notification |-> IF filtered # <<>> THEN "results" ELSE "none_found"]
              [] outcome = "relogin_failed" -> [venues |-> <<>>, notification |-> "none"]
              [] outcome = "non200" -> [venues |-> <<>>, notification |-> "failed"]
              [] OTHER -> [venues |-> <<>>, notification |-> "error"]
    /\ sent' = Append(sent, [op |-> "venues", outcome |-> outcome, answer |-> venues])
    /\ hpc' = "venue_returned"
    /\ UNCHANGED apiVars
    /\ UNCHANGED <<call_data, now_date, coordinator, matching>>

\* venueDistance of the venues answered: 0, 5, 20, 21 miles or absent
VenueDistances ==
    {[has_distance |-> TRUE, venueDistance |-> d] : d \in {0, 5, 20, 21}}
    \cup {[has_distance |-> FALSE, venueDistance |-> 0]}

\* the answers of the venues request: the i-th venue has id i
VenueLists ==
    UNION {{[i \in 1..n |-> [venueId |-> i, has_distance |-> d[i].has_distance,
                             venueDistance |-> d[i].venueDistance]] :
              d \in [1..n -> VenueDistances]} : n \in 0..MaxVenues}

\* max_distance absent, 0.0, 5.0 or 20.0 (cv.positive_float accepts 0)
VenueCalls ==
    {[has_max_distance |-> FALSE, max_distance |-> 0]}
    \cup {[has_max_distance |-> TRUE, max_distance |-> m] : m \in {0, 5, 20}}

InitVenues ==
    /\ LoggedOutOrIn
    /\ hpc = "venue_called"
    /\ call_data \in VenueCalls
    /\ now_date = FirstDay
    /\ coordinator = CachedAtCall
    /\ helper = VenueLocals
    /\ matching = <<>>
    /\ sent = <<>>

NextVenues ==
    \/ \E outcome \in LoginOutcomes : venue_search_login(outcome)
    \/ \E outcome \in QueryOutcomes, venues \in VenueLists :
          venues_answered(outcome, venues)

SpecVenues == InitVenues /\ [][NextVenues]_vars

\* the venues request of the call was answered with a list of venues
VenuesAnswered ==
    /\ hpc = "venue_returned"
    /\ sent # <<>>
    /\ sent[Len(sent)].op = "venues"
    /\ sent[Len(sent)].outcome = "ok"

\* C32: the venues reported are the answered venues whose venueDistance is
\* at most max_distance (20 miles without max_distance), in the order of the
\* answer: none farther away is reported and none within the limit is left
\* out.  Refuted: with max_distance 0 the test of line 569 is false and
\* every venue is reported.
C32_VenuesWithinMaxDistance ==
    VenuesAnswered =>
        LET limit == IF call_data.has_max_distance THEN call_data.max_distance ELSE 20
            answer == sent[Len(sent)].answer
        IN /\ \A i \in 1..Len(helper.venues) :
                 helper.venues[i].has_distance => helper.venues[i].venueDistance <= limit
           /\ SelectSeq(helper.venues, LAMBDA v : v.has_distance)
                 = SelectSeq(answer, LAMBDA v : v.has_distance /\ v.venueDistance <= limit)

-----------------------------------------------------------------------------
(* The cache refresh of the booking helper *)

\* C33: from the point where booking_helper asks for the last donation
\* date, it refreshes the coordinator exactly when the coordinator has no
\* data or its last update failed; otherwise it goes on with the cached
\* appointment list, which stays as it is, without a request; and when the
\* coordinator has no data by the time the earliest allowed date is
\* computed, that date is today.
C33_RefreshIffStale ==
    [][/\ (hpc = "last_donation" /\ hpc' # "last_donation")
            => IF ~coordinator.has_data \/ ~coordinator.last_update_success
               THEN hpc' = "refreshed"
               ELSE /\ hpc' \in {"search", "raised"}
                    /\ coordinator' = coordinator
                    /\ sent' = sent
       /\ (hpc \in {"last_donation", "refreshed"} /\ hpc' \in {"search", "raised"})
            => /\ coordinator' = coordinator
               /\ ~coordinator.has_data => helper'.earliest_allowed_date = now_date]_vars

\* the refresh failed, no data is available, and the search starts today
C33_Witness ==
    /\ hpc = "search"
    /\ ~coordinator.has_data
    /\ ~coordinator.last_update_success
    /\ helper.earliest_allowed_date = now_date

-----------------------------------------------------------------------------
(* A sequence of refreshes of the one coordinator, from its construction.   *)

\* The next refresh starts: the timer of the update interval, or a call of
\* async_refresh().  The locals and the log are those of the new refresh.
refresh_again ==
    /\ hpc \in {"updated", "update_failed"}
    /\ hpc' = "update"
    /\ helper' = RefreshLocals
    /\ sent' = <<>>
    /\ UNCHANGED apiVars
    /\ UNCHANGED <<call_data, now_date, coordinator, matching>>

\* the appointment lists of the refreshes: none, one yesterday, one today at
\* 01:00, one today without time, one tomorrow at 23:00
ScheduledLists ==
    {<<>>,
     <<BookedAppointment("date", FirstDay - 1, <<>>)>>,
     <<BookedAppointment("date", FirstDay, <<"T", "0", "1", "0", "0">>)>>,
     <<BookedAppointment("date", FirstDay, <<>>)>>,
     <<BookedAppointment("date", FirstDay + 1, <<"T", "2", "3", "0", "0">>)>>}

ScheduledBodies(outcome) ==
    IF outcome = "ok"
    THEN {AccountBody("object", a, d) : a \in ScheduledLists, d \in AccountDonorIDs}
         \cup {AccountBody("empty_object", <<>>, None), AccountBody("array", <<>>, None)}
    ELSE {NoData}

InitSchedule ==
    /\ ApiIdle
    /\ coordinator = Constructed
    /\ hpc = "update"
    /\ now_date = FirstDay
    /\ helper = RefreshLocals
    /\ call_data = <<>>
    /\ matching = <<>>
    /\ sent = <<>>

NextSchedule ==
    \/ \E outcome \in LoginOutcomes : get_data_login(outcome)
    \/ \E outcome \in QueryOutcomes :
          \E body \in ScheduledBodies(outcome) : account_answered(outcome, body)
    \/ \E outcome \in QueryOutcomes, time_of_day \in NowTimes :
          awards_answered(outcome, time_of_day)
    \/ refresh_again

SpecSchedule == InitSchedule /\ [][NextSchedule]_vars

\* C34: only a refresh that ends with data changes the coordinator's
\* interval fields or calls _schedule_refresh(); a refresh that fails at the
\* login, at the account request or by an exception leaves the interval of
\* the last successful refresh in force, however many refreshes fail.
C34_FailedRefreshKeepsInterval ==
    [][(coordinator' # coordinator
          \/ Len(ScheduleCalls(sent')) > Len(ScheduleCalls(sent)))
       => hpc' = "updated"]_vars

\* a refresh failed at its account request while the hourly interval of an
\* earlier refresh was in force
C34_Witness ==
    /\ hpc = "update_failed"
    /\ AccountDetailsNull
    /\ coordinator.update_interval = 3600

\* C37: whatever refreshes have run since the construction, the update
\* interval is the standard one (24 hours) or the appointment one (1 hour),
\* and the recorded dynamic interval equals the update interval.
C37_IntervalIsOneOfTwo ==
    /\ coordinator.update_interval \in {24 * SecondsPerHour, 1 * SecondsPerHour}
    /\ coordinator._dynamic_update_interval = coordinator.update_interval

\* a refresh has just put the standard interval back after an earlier one
\* had selected the hourly interval
C37_Witness ==
    /\ hpc = "updated"
    /\ coordinator._next_appointment_datetime # None
    /\ coordinator.update_interval = 24 * SecondsPerHour
    /\ ScheduleCalls(sent) # <<>>

\* C35: in every result the helper returns, success = true comes with an
\* appointment and no error, success = false comes with an error, and an
\* appointment beside success = false is there only when a slot was found
\* and the booking request for it was not confirmed.
C35_ResultIsConsistent ==
    hpc = "returned" =>
        LET r == helper.response_data
        IN /\ r.success => r.appointment # NoAppointment /\ r.error = "None"
           /\ ~r.success => r.error # "None"
           /\ (~r.success /\ r.appointment # NoAppointment) =>
                 /\ matching.best_slot # NoSlot
                 /\ call_data.auto_book
                 /\ Len(BookingRequests) = 1
                 /\ BookingRequests[1].outcome # "ok"

\* a slot was found, its booking was not confirmed, and the result carries
\* both the error and the slot found
C35_Witness ==
    /\ hpc = "returned"
    /\ ~helper.response_data.success
    /\ helper.response_data.appointment # NoAppointment
    /\ helper.response_data.error = "Booking returned status"

\* the session query at position j of the log answered with the session of
\* this id, and the session has a period with available slots
OfferedWithAvailability(log, j, session_id) ==
    /\ log[j].op = "sessions"
    /\ \E s \in 1..Len(log[j].answer) :
          /\ log[j].answer[s].sessionId = session_id
          /\ \E p \in 1..Len(log[j].answer[s].periods) :
                log[j].answer[s].periods[p].availableSlots > 0

\* the requests of the helper's log are in the order the helper owes them
InOrder(log, target_date) ==
    \A i \in 1..Len(log) :
      /\ log[i].op = "book" =>
            /\ \E j \in 1..(i - 1) :
                  /\ log[j].op = "sessions"
                  /\ log[j].params.startDate = target_date
                  /\ log[j].params.endDate = target_date
                  /\ Len(log[j].answer) >= 1
            /\ \E k \in 1..(i - 1) :
                  /\ log[k].op = "slots"
                  /\ log[k].session_id = log[i].session_id
                  /\ \E s \in 1..Len(log[k].answer) :
                        log[k].answer[s].time = log[i].session_time
      /\ log[i].op = "slots" =>
            \E j \in 1..(i - 1) : OfferedWithAvailability(log, j, log[i].session_id)

SoonestPosition(appointments) ==
    CHOOSE i \in 1..Len(appointments) :
        \A j \in 1..Len(appointments) :
            \/ appointments[i].date < appointments[j].date
            \/ appointments[i].date = appointments[j].date /\ i <= j

\* an entry has no session date or one that does not parse, or the time of
\* the soonest entry has an hour or minute out of range
Unprocessable(appointments) ==
    /\ appointments # <<>>
    /\ \/ ~AllDated(appointments)
       \/ LET time == appointments[SoonestPosition(appointments)].time
          IN time # <<>> /\ ~WellFormedTime(time)

\* C38: when get_data handed back the account object, the refresh ends with
\* the data whatever its appointments are, and when the date or the time of
\* the next appointment cannot be processed the interval in force is the
\* standard one of 24 hours.
C38_UnprocessableGivesStandard ==
    (hpc \in {"updated", "update_failed"} /\ helper.account_data.kind = "object")
        => /\ hpc = "updated"
           /\ helper.result = "data"
           /\ Unprocessable(helper.account_data.appointments)
                 => coordinator.update_interval = 24 * 3600

\* an appointment of today with the time "T2500" took the hourly interval
\* back to the standard one
C38_Witness ==
    /\ hpc = "updated"
    /\ helper.account_data.appointments =
          <<BookedAppointment("date", now_date, <<"T", "2", "5", "0", "0">>)>>
    /\ coordinator.update_interval = 24 * 3600
    /\ ScheduleCalls(sent) # <<>>

\* the requests of one kind in the log of a refresh
RequestsOf(op) == SelectSeq(sent, LAMBDA q : q.op = op)

-----------------------------------------------------------------------------
(* The available_appointments service (services.py): the sessions of a      *)
(* venue, and of them the ones it lists as available.                        *)

counts_periods(periods) == Len(periods)

\* lines 169-174: total_available, the sum of int(availableSlots) over the
\* periods of the session
RECURSIVE total_available(_)
total_available(periods) ==
    IF periods = <<>> THEN 0
    ELSE Head(periods).availableSlots + total_available(Tail(periods))

\* lines 191-205: session_details, one entry for each session whose
\* total_available is above 0, in the order of the answer
session_details(sessions) ==
    LET kept == SelectSeq(sessions, LAMBDA s : total_available(s.periods) > 0)
    IN [i \in 1..Len(kept) |->
           [session_id |-> kept[i].sessionId,
            session_date |-> kept[i].sessionDate,
            total_available |-> total_available(kept[i].periods)]]

\* lines 159, 191-197: available_dates, keyed by the date of the session: of
\* the sessions of one date with total_available above 0 the last one stays
available_dates(sessions) ==
    LET details == session_details(sessions)
    IN {details[i] : i \in {i \in 1..Len(details) :
                              \A j \in (i + 1)..Len(details) :
                                  details[j].session_date # details[i].session_date}}

ListingLocals == [session_details |-> <<>>, available_dates |-> {}, notification |-> "none"]

\* Lines 119-124: login() when no access token is stored; the handler
\* returns when there is none afterwards.
listing_login(outcome) ==
    /\ hpc = "listing_called"
    /\ _access_token = None
    /\ outcome \in {"ok_full", "ok_no_account"} => issued < MaxLogins
    /\ LET n == issued + 1
           r == login(Stored, outcome, n)
       IN /\ _access_token' = r.access
          /\ _refresh_token' = r.refresh
          /\ _donor_id' = r.donor
          /\ issued' = IF r.ret THEN n ELSE issued
          /\ hpc' = IF r.access = None THEN "listing_returned" ELSE "listing_logged_in"
    /\ sent' = Append(sent, [op |-> "login", outcome |-> outcome])
    /\ UNCHANGED <<always401, calls>>
    /\ UNCHANGED <<call_data, now_date, coordinator, helper, matching>>

\* Lines 126-238: the sessions request, the sessions with availability and
\* the notification; nothing is listed or notified when the request fails.
listing_answered(outcome, sessions) ==
    /\ \/ hpc = "listing_called" /\ _access_token # None
       \/ hpc = "listing_logged_in"
    /\ outcome # "ok" => sessions = <<>>
    /\ helper' =
          IF outcome = "ok"
          THEN [session_details |-> session_details(sessions),
                available_dates |-> available_dates(sessions),
                notification |-> IF available_dates(sessions) # {}
                                 THEN "results" ELSE "none_found"]
          ELSE ListingLocals
    /\ sent' = Append(sent, [op |-> "sessions", outcome |-> outcome, answer |-> sessions])
    /\ hpc' = "listing_returned"
    /\ UNCHANGED apiVars
    /\ UNCHANGED <<call_data, now_date, coordinator, matching>>

\* availableSlots of the periods of a session as the backend may send them:
\* no period, periods without places, with places, and with a negative
\* count beside a positive one
ListedPeriods ==
    {[i \in 1..Len(c) |-> [availableSlots |-> c[i]]] :
        c \in {<<>>, <<0>>, <<1>>, <<0, 0>>, <<0, 2>>, <<2, 0>>,
               <<-2, 1>>, <<1, -2>>, <<-1, 1>>, <<-1, 2>>}}

\* the answers of the sessions request: the i-th session has id i, the
\* sessions are of the first day
ListedSessionLists ==
    UNION {{[i \in 1..n |-> [sessionId |-> i, sessionDate |-> FirstDay,
                             periods |-> p[i]]] : p \in [1..n -> ListedPeriods]} :
           n \in 0..MaxSessions}

InitListing ==
    /\ LoggedOutOrIn
    /\ hpc = "listing_called"
    /\ call_data = [venue_id |-> 1]
    /\ now_date = FirstDay
    /\ coordinator = CachedAtCall
    /\ helper = ListingLocals
    /\ matching = <<>>
    /\ sent = <<>>

NextListing ==
    \/ \E outcome \in LoginOutcomes : listing_login(outcome)
    \/ \E outcome \in QueryOutcomes, sessions \in ListedSessionLists :
          listing_answered(outcome, sessions)

SpecListing == InitListing /\ [][NextListing]_vars

\* no period of the session has a negative availableSlots
NonNegative(session) ==
    \A p \in 1..Len(session.periods) : session.periods[p].availableSlots >= 0

\* the ids of the sessions a list of session entries names
IdsOf(entries) == {entries[i].session_id : i \in 1..Len(entries)}

\* C39: for every session of the answer whose periods all have a
\* non-negative availableSlots, the test of the booking helper (some period
\* has availableSlots above 0) keeps the session exactly when the test of
\* the available_appointments listing (the sum over the periods is above 0)
\* lists it.
C39_AvailabilityTestsAgree ==
    (hpc = "listing_returned" /\ sent # <<>> /\ sent[Len(sent)].op = "sessions")
        => LET answer == sent[Len(sent)].answer
           IN \A s \in 1..Len(answer) :
                 NonNegative(answer[s]) =>
                     (answer[s].sessionId \in IdsOf(available_sessions(answer))
                        <=> answer[s].sessionId \in IdsOf(helper.session_details))

\* the listing has answered for a session with periods of 0 and 2 places,
\* which both tests keep, and a session with periods of 1 and -2 places,
\* which only the helper's test keeps
C39_Witness ==
    /\ hpc = "listing_returned"
    /\ sent # <<>>
    /\ sent[Len(sent)].op = "sessions"
    /\ LET answer == sent[Len(sent)].answer
       IN /\ Len(answer) = 2
          /\ answer[1].periods = <<[availableSlots |-> 0], [availableSlots |-> 2]>>
          /\ answer[2].periods = <<[availableSlots |-> 1], [availableSlots |-> -2]>>
          /\ IdsOf(available_sessions(answer)) = {1, 2}
          /\ IdsOf(helper.session_details) = {1}

====
